---- MODULE Spec2Model ----
(***************************************************************************)
(* Janmapatrika: the Vimshottari dasha generators, the chart calculation   *)
(* entry point and the local coordinate lookup of AstrologyService, with   *)
(* the AppComponent state that consumes them.                              *)
(*                                                                         *)
(* Numbers.  TLC's integers are 32 bits wide, while an instant is about    *)
(* 10^12 ms, so large non-negative integers are carried as little-endian   *)
(* sequences of base-2^15 limbs (<<>> is zero, the last limb is never 0).  *)
(* A JavaScript number that is not a whole count is an IEEE 754 double: a  *)
(* record [m, e] standing for m * 2^e with m below 2^53, and + - * / round *)
(* to nearest, ties to even, as the language does.  Only non-negative      *)
(* numbers occur.                                                          *)
(*                                                                         *)
(* A value that a computation reads more than once is bound as the         *)
(* parameter of a local operator (LET With(v) == ... IN With(expr)), the    *)
(* counterpart of a const declaration in the code.                         *)
(*                                                                         *)
(* Instants are milliseconds since 1970-01-01T00:00Z; only instants at or  *)
(* after the epoch are enumerated.                                         *)
(***************************************************************************)
EXTENDS Integers, Sequences, FiniteSets, TLC

(***************************************************************************)
(* Exact arithmetic on large naturals                                      *)
(***************************************************************************)
Base == 2 ^ 15

RECURSIVE NatOf(_)
\* the limbs of a small integer n >= 0
NatOf(n) == IF n = 0 THEN <<>> ELSE <<n % Base>> \o NatOf(n \div Base)

RECURSIVE NatTrim(_)
\* drop most-significant zero limbs
NatTrim(a) ==
  IF a = <<>> THEN <<>>
  ELSE IF a[Len(a)] = 0 THEN NatTrim(SubSeq(a, 1, Len(a) - 1))
  ELSE a

Limb(a, i) == IF i <= Len(a) THEN a[i] ELSE 0

MaxOf(x, y) == IF x >= y THEN x ELSE y

RECURSIVE NatAddFrom(_, _, _, _)
NatAddFrom(a, b, i, carry) ==
  IF i > MaxOf(Len(a), Len(b))
  THEN (IF carry = 0 THEN <<>> ELSE <<carry>>)
  ELSE LET s == Limb(a, i) + Limb(b, i) + carry
       IN <<s % Base>> \o NatAddFrom(a, b, i + 1, s \div Base)

NatAdd(a, b) == NatAddFrom(a, b, 1, 0)

RECURSIVE NatCmpFrom(_, _, _)
\* compare limbs i, i-1, ..., 1 of two numbers of equal length: -1, 0 or 1
NatCmpFrom(a, b, i) ==
  IF i = 0 THEN 0
  ELSE IF a[i] < b[i] THEN -1
  ELSE IF a[i] > b[i] THEN 1
  ELSE NatCmpFrom(a, b, i - 1)

NatCmp(a, b) ==
  IF Len(a) < Len(b) THEN -1
  ELSE IF Len(a) > Len(b) THEN 1
  ELSE NatCmpFrom(a, b, Len(a))

NatLe(a, b) == NatCmp(a, b) <= 0
NatLt(a, b) == NatCmp(a, b) < 0

RECURSIVE NatSubFrom(_, _, _, _)
NatSubFrom(a, b, i, borrow) ==
  IF i > Len(a) THEN <<>>
  ELSE LET s == a[i] - Limb(b, i) - borrow
       IN IF s < 0
          THEN <<s + Base>> \o NatSubFrom(a, b, i + 1, 1)
          ELSE <<s>> \o NatSubFrom(a, b, i + 1, 0)

\* a - b for a >= b
NatSub(a, b) == NatTrim(NatSubFrom(a, b, 1, 0))

RECURSIVE NatMulIntFrom(_, _, _, _)
NatMulIntFrom(a, k, i, carry) ==
  IF i > Len(a) THEN NatOf(carry)
  ELSE LET s == a[i] * k + carry
       IN <<s % Base>> \o NatMulIntFrom(a, k, i + 1, s \div Base)

\* a * k for an integer 0 <= k < 2^16
NatMulInt(a, k) == IF k = 0 THEN <<>> ELSE NatMulIntFrom(a, k, 1, 0)

NatShift(a, n) == IF a = <<>> THEN <<>> ELSE [i \in 1..n |-> 0] \o a

RECURSIVE NatMulFrom(_, _, _)
NatMulFrom(a, b, i) ==
  IF i > Len(b) THEN <<>>
  ELSE NatAdd(NatShift(NatMulInt(a, b[i]), i - 1), NatMulFrom(a, b, i + 1))

NatMul(a, b) == NatMulFrom(a, b, 1)

RECURSIVE QuotientLimb(_, _, _, _)
\* the largest q in lo..hi with b * q <= r (b * lo <= r is given)
QuotientLimb(r, b, lo, hi) ==
  IF lo = hi THEN lo
  ELSE LET mid == (lo + hi + 1) \div 2
       IN IF NatLe(NatMulInt(b, mid), r)
          THEN QuotientLimb(r, b, mid, hi)
          ELSE QuotientLimb(r, b, lo, mid - 1)

RECURSIVE NatDivModFrom(_, _, _, _, _)
\* long division, limb i of a downwards; r is the running remainder (below b)
\* and q the quotient limbs found so far
NatDivModFrom(a, b, i, r, q) ==
  IF i = 0 THEN [q |-> q, r |-> r]
  ELSE LET cur == NatTrim(<<a[i]>> \o r)
           WithRemainder(d, rem) ==
             CASE NatLt(rem, b) -> NatDivModFrom(a, b, i - 1, rem, <<d>> \o q)
           WithDigit(d) == WithRemainder(d, NatSub(cur, NatMulInt(b, d)))
       IN WithDigit(QuotientLimb(cur, b, 0, Base - 1))

RECURSIVE NatToIntFrom(_, _)
NatToIntFrom(a, i) == IF i > Len(a) THEN 0 ELSE a[i] + Base * NatToIntFrom(a, i + 1)

\* the integer value of a number known to be below 2^31
NatToInt(a) == NatToIntFrom(a, 1)

RECURSIVE ShiftLeft10(_)
\* 10^n
ShiftLeft10(n) == IF n = 0 THEN NatOf(1) ELSE NatMulInt(ShiftLeft10(n - 1), 10)

RECURSIVE ShortDivFrom(_, _, _, _)
\* short division by an integer 0 < k < 2^16, limb i of a downwards
ShortDivFrom(a, k, i, r) ==
  IF i = 0 THEN [q |-> <<>>, r |-> NatOf(r)]
  ELSE LET cur == r * Base + a[i]
           rest == ShortDivFrom(a, k, i - 1, cur % k)
       IN [q |-> rest.q \o <<cur \div k>>, r |-> rest.r]

IsShort(b) == Len(b) <= 1 \/ (Len(b) = 2 /\ b[2] < 2)

\* Math.floor(a / b) and the remainder, for b > 0
NatDivMod(a, b) ==
  LET Trimmed(res) == [q |-> NatTrim(res.q), r |-> res.r]
  IN Trimmed(IF IsShort(b)
             THEN ShortDivFrom(a, NatToInt(b), Len(a), 0)
             ELSE NatDivModFrom(a, b, Len(a), <<>>, <<>>))

\* Math.floor(a / k) for an integer 0 < k < 2^16
NatDivInt(a, k) == NatTrim(ShortDivFrom(a, k, Len(a), 0).q)

NatDiv(a, b) == NatDivMod(a, b).q
NatMod(a, b) == NatDivMod(a, b).r

(***************************************************************************)
(* IEEE 754 doubles (non-negative, normal range): [m, e] is m * 2^e        *)
(***************************************************************************)
\* the number of binary digits of a
BitLen(a) ==
  IF a = <<>> THEN 0
  ELSE 15 * (Len(a) - 1)
       + (CHOOSE k \in 1..15 : 2 ^ (k - 1) <= a[Len(a)] /\ a[Len(a)] < 2 ^ k)

\* a * 2^s
ShiftLeft(a, s) == NatShift(NatMulInt(a, 2 ^ (s % 15)), s \div 15)

\* Math.floor(a / 2^s), and whether a non-zero remainder was dropped
ShiftRight(a, s, sticky) ==
  LET n == s \div 15
  IN IF n >= Len(a)
     THEN [q |-> <<>>, sticky |-> sticky \/ a # <<>>]
     ELSE LET rest == SubSeq(a, n + 1, Len(a))
              Shifted(d) ==
                [q |-> NatTrim(d.q),
                 sticky |-> sticky \/ d.r # <<>> \/ \E i \in 1..n : a[i] # 0]
          IN Shifted(ShortDivFrom(rest, 2 ^ (s % 15), Len(rest), 0))

IsOdd(a) == a # <<>> /\ a[1] % 2 = 1

\* the double nearest to n * 2^e (ties to even)
DblRound(n, e) ==
  LET b == BitLen(n)
  IN IF b <= 53 THEN [m |-> n, e |-> IF n = <<>> THEN 0 ELSE e]
     ELSE LET Nearest(q, half, sticky) ==
                IF half /\ (sticky \/ IsOdd(q)) THEN NatAdd(q, NatOf(1)) ELSE q
              Rounded(sh) ==
                [m |-> Nearest(NatDivInt(sh.q, 2), IsOdd(sh.q), sh.sticky),
                 e |-> e + (b - 53)]
          IN Rounded(ShiftRight(n, b - 54, FALSE))

DblOfNat(n) == [m |-> n, e |-> 0]
DblOfInt(n) == DblOfNat(NatOf(n))

MinOf(x, y) == IF x <= y THEN x ELSE y

\* x * y
DblMul(x, y) == DblRound(NatMul(x.m, y.m), x.e + y.e)

\* x + y
DblAdd(x, y) ==
  IF x.m = <<>> THEN y
  ELSE IF y.m = <<>> THEN x
  ELSE LET e == MinOf(x.e, y.e)
       IN DblRound(NatAdd(ShiftLeft(x.m, x.e - e), ShiftLeft(y.m, y.e - e)), e)

\* x - y, for x >= y
DblSub(x, y) ==
  IF y.m = <<>> THEN x
  ELSE LET e == MinOf(x.e, y.e)
       IN DblRound(NatSub(ShiftLeft(x.m, x.e - e), ShiftLeft(y.m, y.e - e)), e)

\* x / y, for y > 0: 56 or more quotient bits and a sticky bit, then rounded
DblDiv(x, y) ==
  IF x.m = <<>> THEN x
  ELSE LET t == MaxOf(0, 56 + BitLen(y.m) - BitLen(x.m))
           WithSticky(d) ==
             NatAdd(NatMulInt(d.q, 2), IF d.r = <<>> THEN <<>> ELSE NatOf(1))
       IN DblRound(WithSticky(NatDivMod(ShiftLeft(x.m, t), y.m)), x.e - y.e - t - 1)

\* Math.floor(x), which is also the truncation of x
DblFloor(x) ==
  IF x.e >= 0 THEN ShiftLeft(x.m, x.e) ELSE ShiftRight(x.m, 0 - x.e, FALSE).q

\* x = y as numbers
DblEq(x, y) ==
  LET e == MinOf(x.e, y.e)
  IN (x.m = <<>> /\ y.m = <<>>)
     \/ (x.m # <<>> /\ y.m # <<>> /\ ShiftLeft(x.m, x.e - e) = ShiftLeft(y.m, y.e - e))

\* x < y as numbers
DblLt(x, y) ==
  IF y.m = <<>> THEN FALSE
  ELSE IF x.m = <<>> THEN TRUE
  ELSE LET e == MinOf(x.e, y.e)
       IN NatLt(ShiftLeft(x.m, x.e - e), ShiftLeft(y.m, y.e - e))

\* the decimal literal digits / 10^places
DblLiteral(digits, places) == DblDiv(DblOfNat(digits), DblOfNat(ShiftLeft10(places)))

\* x % y for y > 0: the remainder of the exact division, itself exact
DblMod(x, y) ==
  LET e == MinOf(x.e, y.e)
  IN DblRound(NatMod(ShiftLeft(x.m, x.e - e), ShiftLeft(y.m, y.e - e)), e)

(***************************************************************************)
(* Doubles of either sign: [neg, abs] is the double abs, negated when neg  *)
(* holds; rounding to nearest is the same for a number and its negation.   *)
(***************************************************************************)
Sgn(neg, a) == [neg |-> neg, abs |-> a]
Pos(a) == Sgn(FALSE, a)
SgnOfInt(n) == IF n < 0 THEN Sgn(TRUE, DblOfInt(0 - n)) ELSE Pos(DblOfInt(n))
SgnIsZero(x) == x.abs.m = <<>>
SgnNeg(x) == Sgn(~x.neg, x.abs)

\* x + y; a sum that is exactly zero is +0 unless both are -0
SgnAdd(x, y) ==
  IF x.neg = y.neg THEN Sgn(x.neg, DblAdd(x.abs, y.abs))
  ELSE IF DblLt(x.abs, y.abs) THEN Sgn(y.neg, DblSub(y.abs, x.abs))
  ELSE IF DblEq(x.abs, y.abs) THEN Pos(DblOfInt(0))
  ELSE Sgn(x.neg, DblSub(x.abs, y.abs))

SgnSub(x, y) == SgnAdd(x, SgnNeg(y))
SgnMul(x, y) == Sgn(x.neg # y.neg, DblMul(x.abs, y.abs))
SgnDiv(x, y) == Sgn(x.neg # y.neg, DblDiv(x.abs, y.abs))

\* x < y as numbers (-0 and +0 are the same number)
SgnLt(x, y) ==
  IF x.neg /\ ~SgnIsZero(x)
  THEN IF y.neg /\ ~SgnIsZero(y) THEN DblLt(y.abs, x.abs) ELSE TRUE
  ELSE IF y.neg /\ ~SgnIsZero(y) THEN FALSE ELSE DblLt(x.abs, y.abs)

\* x % y for y > 0: the remainder has the sign of x
SgnMod(x, y) == Sgn(x.neg, DblMod(x.abs, y))

(***************************************************************************)
(* Date: an instant is a count of milliseconds; its calendar fields are    *)
(* read in the host's time zone, tz minutes east of Greenwich.             *)
(***************************************************************************)
msPerDay == NatMul(NatOf(86400), NatOf(1000))
msPerMinute == NatOf(60000)

IsLeap(y) == (y % 4 = 0 /\ y % 100 # 0) \/ y % 400 = 0

DaysInMonth(y, m) ==
  IF m = 2 THEN (IF IsLeap(y) THEN 29 ELSE 28)
  ELSE IF m \in {4, 6, 9, 11} THEN 30 ELSE 31

\* days from 1970-01-01 to the civil date y-m-d (m in 1..12), y >= 1970
DaysFromCivil(y, m, d) ==
  LET yy == IF m <= 2 THEN y - 1 ELSE y
      era == yy \div 400
      yoe == yy - era * 400
      mp == IF m > 2 THEN m - 3 ELSE m + 9
      doy == (153 * mp + 2) \div 5 + d - 1
      doe == yoe * 365 + yoe \div 4 - yoe \div 100 + doy
  IN era * 146097 + doe - 719468

\* the civil date of day number z (days since 1970-01-01); month is 0-based as
\* Date.getMonth returns it
CivilFromDays(z) ==
  LET zz == z + 719468
      era == zz \div 146097
      doe == zz - era * 146097
      yoe == (doe - doe \div 1460 + doe \div 36524 - doe \div 146096) \div 365
      doy == doe - (365 * yoe + yoe \div 4 - yoe \div 100)
      mp == (5 * doy + 2) \div 153
      d == doy - (153 * mp + 2) \div 5 + 1
      m == IF mp < 10 THEN mp + 3 ELSE mp - 9
      y == yoe + era * 400 + (IF m <= 2 THEN 1 ELSE 0)
  IN [year |-> y, month |-> m - 1, date |-> d]

\* getFullYear / getMonth / getDate of an instant in time zone zone
LocalFields(t, zone) ==
  CivilFromDays(NatToInt(NatDivInt(NatDivInt(NatAdd(t, NatMulInt(msPerMinute, zone)), 60000),
                                   1440)))

\* new Date(year, monthIndex, 0).getDate(): the length of the month before
\* monthIndex (0-based) of year
LastDayOfPreviousMonth(year, monthIndex) ==
  IF monthIndex = 0 THEN 31 ELSE DaysInMonth(year, monthIndex)

\* whether `${date}T${time}` names a calendar instant
ValidDateTime(dt) ==
  /\ dt.month \in 1..12
  /\ dt.day \in 1..DaysInMonth(dt.year, dt.month)
  /\ dt.hour \in 0..23
  /\ dt.minute \in 0..59

\* new Date(`${date}T${time}`).getTime() for a valid date and time: local time
ParseLocal(dt, zone) ==
  NatSub(NatAdd(NatMulInt(msPerDay, DaysFromCivil(dt.year, dt.month, dt.day)),
                NatMulInt(msPerMinute, dt.hour * 60 + dt.minute)),
         NatMulInt(msPerMinute, zone))

(***************************************************************************)
(* Strings that the code builds and takes apart are sequences of tokens:   *)
(* a lord's name is one token, the separator " - " another.                *)
(***************************************************************************)
Str(token) == <<token>>

RECURSIVE Join(_, _)
\* parts.join(sep)
Join(parts, sep) ==
  IF Len(parts) = 0 THEN <<>>
  ELSE IF Len(parts) = 1 THEN parts[1]
  ELSE parts[1] \o <<sep>> \o Join(Tail(parts), sep)

RECURSIVE SplitFrom(_, _, _, _)
SplitFrom(s, sep, i, cur) ==
  IF i > Len(s) THEN <<cur>>
  ELSE IF s[i] = sep THEN <<cur>> \o SplitFrom(s, sep, i + 1, <<>>)
  ELSE SplitFrom(s, sep, i + 1, Append(cur, s[i]))

\* s.split(sep)
Split(s, sep) == SplitFrom(s, sep, 1, <<>>)

(***************************************************************************)
(* AstrologyService: tables                                                *)
(***************************************************************************)
VARIABLES
  tz,          \* the host's time zone, minutes east of Greenwich
  moonLon,     \* argument of calculateMahadashas (units of 10^-11 degree)
  birthDate,   \* argument of calculateMahadashas (an instant)
  dashas,      \* the periods calculateMahadashas returned last, or <<>>
  call,        \* the generator call made last and the row it was made for
  subDashas,   \* the periods that call returned
  history,     \* DashaTableComponent.history: the rows drilled into
  passedDate,  \* the Date object given to that call, read after the call
  level,       \* DashaTableComponent.level
  currentRows, \* DashaTableComponent.currentRows
  hasData,     \* AppComponent.hasData
  isLoading,   \* AppComponent.isLoading
  chartData,   \* AppComponent.chartData
  activeTab,   \* AppComponent.activeTab
  awaiting,    \* the generateChart call waiting for calculateChart to settle
  timers,      \* the charts of the generateChart calls in their 800 ms delay
  settled,     \* how the generateChart call that finished last ended
  placeInput,  \* the place text typed or loaded into the birth form
  cityCall,    \* the city lookup made last
  foundCities, \* the cities searchCities returned last
  foundCoords, \* the coordinates getCoordinatesLocal returned last
  given,       \* the function of the chart points to call and its arguments
  returned,    \* what that call returned
  stored,      \* the object store 'profiles' of the database
  profiles,    \* StorageService.profiles
  dbOpen,      \* whether dbPromise has resolved
  opening,     \* the calls waiting for dbPromise, in the order they were made
  transactions,\* the transactions created and not finished, oldest first
  clock,       \* Date.now()
  issued,      \* the ids generated so far
  deletes      \* the deleteProfile calls made so far

NAKSHATRA_LORDS ==
  <<"Ketu", "Shukra", "Surya", "Chandra", "Kuja", "Rahu", "Guru", "Shani", "Budha">>

\* the table with 17 years for Rahu
DashaYearsRahuShort ==
  [Ketu |-> 7, Shukra |-> 20, Surya |-> 6, Chandra |-> 10, Kuja |-> 7,
   Rahu |-> 17, Guru |-> 16, Shani |-> 19, Budha |-> 17]

DASHA_YEARS ==
  [Ketu |-> 7, Shukra |-> 20, Surya |-> 6, Chandra |-> 10, Kuja |-> 7,
   Rahu |-> 18, Guru |-> 16, Shani |-> 19, Budha |-> 17]

Lords == {NAKSHATRA_LORDS[i] : i \in 1..Len(NAKSHATRA_LORDS)}

\* NAKSHATRA_LORDS.indexOf(name): 0-based, -1 when absent
IndexOfLord(name) ==
  IF \E i \in 1..Len(NAKSHATRA_LORDS) : Str(NAKSHATRA_LORDS[i]) = name
  THEN (CHOOSE i \in 1..Len(NAKSHATRA_LORDS) : Str(NAKSHATRA_LORDS[i]) = name) - 1
  ELSE -1

\* DASHA_YEARS[name] for the name of a lord
DashaYearsOf(name) == DASHA_YEARS[name[1]]

\* the literal 13.3333333333
nakshatraSpan == DblLiteral(NatAdd(NatMul(NatOf(133333), NatOf(1000000)), NatOf(333333)), 10)

\* 365.2425 * 24 * 60 * 60 * 1000, multiplied left to right
msPerYear ==
  DblMul(DblMul(DblMul(DblMul(DblLiteral(NatOf(3652425), 4), DblOfInt(24)),
                       DblOfInt(60)), DblOfInt(60)), DblOfInt(1000))

(***************************************************************************)
(* AstrologyService: date helpers                                          *)
(***************************************************************************)
\* addTime with the years cut to a whole number before they are added
addTimeWholeYears(date, years) ==
  DblFloor(DblAdd(DblOfNat(date), DblMul(DblOfNat(DblFloor(years)), msPerYear)))

\* addTime with a year of 365.25 days
addTimeJulian(date, years) ==
  LET msPerJulianYear ==
        DblMul(DblMul(DblMul(DblMul(DblLiteral(NatOf(36525), 2), DblOfInt(24)),
                             DblOfInt(60)), DblOfInt(60)), DblOfInt(1000))
  IN DblFloor(DblAdd(DblOfNat(date), DblMul(years, msPerJulianYear)))

\* result.setTime(result.getTime() + years * msPerYear): setTime drops the
\* fraction of a millisecond
addTime(date, years) ==
  LET addedMs == DblMul(years, msPerYear)
  IN DblFloor(DblAdd(DblOfNat(date), addedMs))

\* the instant the Date given to addTime holds once addTime has set the
\* time of that very object
dateAfterAddTimeInPlace(date, years) == addTime(date, years)

\* the instant the Date given to addTime holds once addTime has returned:
\* setTime is applied to result, a Date made from date
dateAfterAddTime(date, years) == date

getDurationYMD(start, end) ==
  LET Diff(s, e) ==
        LET y0 == e.year - s.year
            m0 == e.month - s.month
            d0 == e.date - s.date
            m1 == IF d0 < 0 THEN m0 - 1 ELSE m0
            d1 == IF d0 < 0 THEN d0 + LastDayOfPreviousMonth(e.year, e.month) ELSE d0
            y2 == IF m1 < 0 THEN y0 - 1 ELSE y0
            m2 == IF m1 < 0 THEN m1 + 12 ELSE m1
        IN [y |-> y2, m |-> m2, d |-> d1]
  IN Diff(LocalFields(start, tz), LocalFields(end, tz))

(***************************************************************************)
(* AstrologyService: the three dasha generators                            *)
(***************************************************************************)
RECURSIVE MahadashaLoop(_, _, _, _)
\* the loop "for (let i = 1; i < 9; i++)" from iteration i on
MahadashaLoop(lordIndex, i, currentDate, acc) ==
  IF i >= 9 THEN acc
  ELSE LET idx == (lordIndex + i) % 9
           planet == NAKSHATRA_LORDS[idx + 1]
           years == DASHA_YEARS[planet]
           Push(endDate) ==
             MahadashaLoop(lordIndex, i + 1, endDate,
               Append(acc, [planet |-> Str(planet),
                            startDate |-> currentDate,
                            endDate |-> endDate,
                            durationYear |-> years,
                            durationMonth |-> 0,
                            durationDay |-> 0,
                            level |-> 1]))
       IN Push(addTime(currentDate, DblOfInt(years)))

calculateMahadashas(lon, birth) ==
  LET WithIndex(moonNakshatraPos, nakshatraIndex) ==
        LET fractionTraversed == DblSub(moonNakshatraPos, DblOfInt(nakshatraIndex))
            fractionRemaining == DblSub(DblOfInt(1), fractionTraversed)
            lordIndex == nakshatraIndex % 9
            firstLord == NAKSHATRA_LORDS[lordIndex + 1]
            totalYears == DASHA_YEARS[firstLord]
            balanceYears == DblMul(DblOfInt(totalYears), fractionRemaining)
            Push(firstEndDate, firstDuration) ==
              MahadashaLoop(lordIndex, 1, firstEndDate,
                <<[planet |-> Str(firstLord),
                   startDate |-> birth,
                   endDate |-> firstEndDate,
                   durationYear |-> firstDuration.y,
                   durationMonth |-> firstDuration.m,
                   durationDay |-> firstDuration.d,
                   level |-> 1]>>)
            WithEnd(firstEndDate) == Push(firstEndDate, getDurationYMD(birth, firstEndDate))
        IN WithEnd(addTime(birth, balanceYears))
      WithPos(moonNakshatraPos) ==
        WithIndex(moonNakshatraPos, NatToInt(DblFloor(moonNakshatraPos)))
  IN WithPos(DblDiv(lon, nakshatraSpan))

\* balanceYears of calculateMahadashas
BalanceYearsOf(lon) ==
  LET WithPos(moonNakshatraPos) ==
        LET nakshatraIndex == NatToInt(DblFloor(moonNakshatraPos))
            fractionRemaining ==
              DblSub(DblOfInt(1), DblSub(moonNakshatraPos, DblOfInt(nakshatraIndex)))
        IN DblMul(DblOfInt(DASHA_YEARS[NAKSHATRA_LORDS[(nakshatraIndex % 9) + 1]]),
                  fractionRemaining)
  IN WithPos(DblDiv(lon, nakshatraSpan))

\* the instant birthDate holds when calculateMahadashas returns: the call
\* hands it to addTime and otherwise reads it
birthDateAfterMahadashas(lon, birth) == dateAfterAddTime(birth, BalanceYearsOf(lon))

\* the instant startDate holds when calculateAntarDashas or
\* calculatePratyantarDashas returns: either call reads it once, to make current
startDateAfterSubDashas(startDate) == startDate

\* the sub-lords taken from the lord after the parent
subLordIndexFromNext(startIndex, i) == (startIndex + i + 1) % 9

\* "(startIndex + i) % 9": the place in the cycle of sub-period i
subLordIndex(startIndex, i) == (startIndex + i) % 9

\* the share of the sub-lord cut to whole years
antarYearsWhole(totalYears, subYears) == DblOfInt((totalYears * subYears) \div 120)

\* "(totalYears * subYears) / 120"
antarYears(totalYears, subYears) == DblDiv(DblOfInt(totalYears * subYears), DblOfInt(120))

\* the share of the sub-lord without the division by 120
pratyantarYearsUndivided(antarDurationYears, subYears) ==
  DblMul(antarDurationYears, DblOfInt(subYears))

\* "(antarDurationYears * subYears) / 120"
pratyantarYears(antarDurationYears, subYears) ==
  DblDiv(DblMul(antarDurationYears, DblOfInt(subYears)), DblOfInt(120))

RECURSIVE AntarLoop(_, _, _, _, _)
\* the loop "for (let i = 0; i < 9; i++)" of calculateAntarDashas
AntarLoop(parentPlanetName, startIndex, i, current, acc) ==
  IF i >= 9 THEN acc
  ELSE LET idx == subLordIndex(startIndex, i)
           subPlanet == NAKSHATRA_LORDS[idx + 1]
           subYears == DASHA_YEARS[subPlanet]
           totalYears == DashaYearsOf(parentPlanetName)
           durationYears == antarYears(totalYears, subYears)
           Push(end, dur) ==
             AntarLoop(parentPlanetName, startIndex, i + 1, end,
               Append(acc, [planet |-> Join(<<parentPlanetName, Str(subPlanet)>>, " - "),
                            startDate |-> current,
                            endDate |-> end,
                            durationYear |-> dur.y,
                            durationMonth |-> dur.m,
                            durationDay |-> dur.d,
                            level |-> 2,
                            parentPlanets |-> <<parentPlanetName>>]))
           WithEnd(end) == Push(end, getDurationYMD(current, end))
       IN WithEnd(addTime(current, durationYears))

calculateAntarDashas(parentPlanetName, startDate) ==
  AntarLoop(parentPlanetName, IndexOfLord(parentPlanetName), 0, startDate, <<>>)

RECURSIVE PratyantarLoop(_, _, _, _, _, _)
\* the loop "for (let i = 0; i < 9; i++)" of calculatePratyantarDashas
PratyantarLoop(grandParentName, parentName, startIndex, i, current, acc) ==
  IF i >= 9 THEN acc
  ELSE LET gpYears == DashaYearsOf(grandParentName)
           pYears == DashaYearsOf(parentName)
           antarDurationYears == antarYears(gpYears, pYears)
           idx == subLordIndex(startIndex, i)
           subPlanet == NAKSHATRA_LORDS[idx + 1]
           subYears == DASHA_YEARS[subPlanet]
           durationYears == pratyantarYears(antarDurationYears, subYears)
           Push(end, dur) ==
             PratyantarLoop(grandParentName, parentName, startIndex, i + 1, end,
               Append(acc, [planet |-> Join(<<grandParentName, parentName, Str(subPlanet)>>, " - "),
                            startDate |-> current,
                            endDate |-> end,
                            durationYear |-> dur.y,
                            durationMonth |-> dur.m,
                            durationDay |-> dur.d,
                            level |-> 3,
                            parentPlanets |-> <<grandParentName, parentName>>]))
           WithEnd(end) == Push(end, getDurationYMD(current, end))
       IN WithEnd(addTime(current, durationYears))

calculatePratyantarDashas(grandParentName, parentName, startDate) ==
  PratyantarLoop(grandParentName, parentName, IndexOfLord(parentName), 0, startDate, <<>>)

(***************************************************************************)
(* Inputs enumerated for the dasha generators                              *)
(***************************************************************************)
\* the largest nakshatra number whose longitudes are sampled
MaxNakshatra == 8

\* the double just below x (x > 0)
DblPred(x) ==
  LET b == BitLen(x.m)
      Below(m) ==
        IF BitLen(m) = 53 THEN [m |-> m, e |-> x.e - (53 - b)]
        ELSE [m |-> NatAdd(NatMulInt(m, 2), NatOf(1)), e |-> x.e - (53 - b) - 1]
  IN Below(NatSub(ShiftLeft(x.m, 53 - b), NatOf(1)))

FullCircle == DblOfInt(360)

\* 54.5, 359.9999999995 and 0
ExampleLon == DblLiteral(NatOf(545), 1)
LastLon == DblLiteral(NatAdd(NatMul(NatOf(3599999), NatOf(1000000)), NatOf(999995)), 10)
ZeroLon == DblOfInt(0)

\* a longitude 4.5 degrees into each sampled nakshatra, the start of the
\* circle, the last double below the second nakshatra, the example of the
\* documentation and a longitude of the last degree
MoonLons ==
  { l \in { DblAdd(DblMul(DblOfInt(n), nakshatraSpan), DblLiteral(NatOf(45), 1)) : n \in 0..MaxNakshatra }
             \cup { ZeroLon, DblPred(nakshatraSpan), ExampleLon, LastLon }
    : DblLt(l, FullCircle) }

TimeZones == {0, 330}

BirthDateTimes ==
  { [year |-> 2000, month |-> 1, day |-> 1, hour |-> 5, minute |-> 30],
    [year |-> 1970, month |-> 1, day |-> 1, hour |-> 5, minute |-> 30] }

(***************************************************************************)
(* The generators, called as the dasha table calls them: the mahadashas of *)
(* the inputs, the antardashas of one of their rows, the pratyantardashas  *)
(* of one of those rows                                                    *)
(***************************************************************************)
tableVars == <<level, currentRows>>
dashaVars == <<tz, moonLon, birthDate, dashas, call, subDashas, history, passedDate, tableVars>>
appVars == <<hasData, isLoading, chartData, activeTab, awaiting, timers, settled>>
cityVars == <<placeInput, cityCall, foundCities, foundCoords>>
planetVars == <<given, returned>>
storageVars == <<stored, profiles, dbOpen, opening, transactions, clock, issued, deletes>>
vars == <<dashaVars, appVars, cityVars, planetVars, storageVars>>

\* no chart, no coordinates
Null == [null |-> TRUE]

\* AppComponent as constructed
\* no profile stored, no call made
InitStorageIdle ==
  /\ stored = {}
  /\ profiles = <<>>
  /\ dbOpen = FALSE
  /\ opening = <<>>
  /\ transactions = <<>>
  /\ clock = 0
  /\ issued = {}
  /\ deletes = 0

InitAppComponent ==
  /\ hasData = FALSE
  /\ isLoading = FALSE
  /\ chartData = Null
  /\ activeTab = "charts"
  /\ awaiting = [at |-> "none"]
  /\ timers = <<>>
  /\ settled = [how |-> "none"]

\* no function of the chart points called on its own
InitPlanetIdle ==
  /\ given = [fn |-> "none"]
  /\ returned = [done |-> FALSE]

\* no city looked up yet
InitCityLookup ==
  /\ cityCall = [fn |-> "none"]
  /\ foundCities = <<>>
  /\ foundCoords = Null

InitDasha ==
  /\ tz \in TimeZones
  /\ moonLon \in MoonLons
  /\ birthDate \in {ParseLocal(dt, tz) : dt \in BirthDateTimes}
  /\ dashas = <<>>
  /\ call = [fn |-> "none"]
  /\ subDashas = <<>>
  /\ history = <<>>
  /\ passedDate = birthDate
  /\ level = 1
  /\ currentRows = <<>>
  /\ InitAppComponent
  /\ InitStorageIdle
  /\ placeInput = <<>>
  /\ InitCityLookup
  /\ InitPlanetIdle

\* the effect of the constructor: dt made from the inputs, the mahadashas of it
CallMahadashas ==
  /\ call.fn = "none"
  /\ dashas' = calculateMahadashas(moonLon, birthDate)
  /\ passedDate' = birthDateAfterMahadashas(moonLon, birthDate)
  /\ call' = [fn |-> "calculateMahadashas"]
  /\ subDashas' = <<>>
  /\ history' = <<>>
  /\ UNCHANGED <<tz, moonLon, birthDate, tableVars, appVars, cityVars, planetVars,
                 storageVars>>

\* drillDown at level 1: item.planet and item.startDate of a mahadasha row
CallAntarDashas(i) ==
  /\ call.fn = "calculateMahadashas"
  /\ i \in 1..Len(dashas)
  /\ LET item == dashas[i]
         Drilled(after) ==
           /\ passedDate' = after
           /\ history' = Append(history, [item EXCEPT !.startDate = after])
     IN /\ subDashas' = calculateAntarDashas(item.planet, item.startDate)
        /\ call' = [fn |-> "calculateAntarDashas", item |-> item, row |-> i]
        /\ Drilled(startDateAfterSubDashas(item.startDate))
  /\ UNCHANGED <<tz, moonLon, birthDate, dashas, tableVars, appVars, cityVars, planetVars,
                 storageVars>>

\* drillDown at level 2: the two parts of item.planet and item.startDate of
\* an antardasha row
CallPratyantarDashas(j) ==
  /\ call.fn = "calculateAntarDashas"
  /\ j \in 1..Len(subDashas)
  /\ LET item == subDashas[j]
         parts == Split(item.planet, " - ")
         Drilled(after) ==
           /\ passedDate' = after
           /\ history' = Append(history, [item EXCEPT !.startDate = after])
     IN /\ subDashas' = calculatePratyantarDashas(parts[1], parts[2], item.startDate)
        /\ call' = [fn |-> "calculatePratyantarDashas", item |-> item, row |-> j]
        /\ Drilled(startDateAfterSubDashas(item.startDate))
  /\ UNCHANGED <<tz, moonLon, birthDate, dashas, tableVars, appVars, cityVars, planetVars,
                 storageVars>>

\* levelUp at level 3: the antardashas of history[length - 2], the mahadasha
\* row drilled into first
LevelUpToAntarDashas ==
  /\ call.fn = "calculatePratyantarDashas"
  /\ LET mahadashaItem == history[Len(history) - 1]
         Shown(after) ==
           /\ passedDate' = after
           /\ history' = <<[mahadashaItem EXCEPT !.startDate = after]>>
     IN /\ subDashas' = calculateAntarDashas(mahadashaItem.planet, mahadashaItem.startDate)
        /\ call' = [fn |-> "calculateAntarDashas", item |-> mahadashaItem,
                    row |-> CHOOSE i \in 1..Len(dashas) :
                              dashas[i].planet = mahadashaItem.planet]
        /\ Shown(startDateAfterSubDashas(mahadashaItem.startDate))
  /\ UNCHANGED <<tz, moonLon, birthDate, dashas, tableVars, appVars, cityVars, planetVars,
                 storageVars>>

\* levelUp at level 2: dt made from the inputs again, the mahadashas of it
LevelUpToMahadashas ==
  /\ call.fn = "calculateAntarDashas"
  /\ dashas' = calculateMahadashas(moonLon, birthDate)
  /\ passedDate' = birthDateAfterMahadashas(moonLon, birthDate)
  /\ call' = [fn |-> "calculateMahadashas"]
  /\ subDashas' = <<>>
  /\ history' = <<>>
  /\ UNCHANGED <<tz, moonLon, birthDate, tableVars, appVars, cityVars, planetVars,
                 storageVars>>

NextDasha ==
  \/ CallMahadashas
  \/ \E i \in 1..9 : CallAntarDashas(i)
  \/ \E j \in 1..9 : CallPratyantarDashas(j)
  \/ LevelUpToAntarDashas
  \/ LevelUpToMahadashas

SpecDasha == InitDasha /\ [][NextDasha]_vars

(***************************************************************************)
(* Properties of the dasha generators                                      *)
(***************************************************************************)
\* the rows the last call returned and the instant it was given
Returned == IF call.fn = "calculateMahadashas" THEN dashas ELSE subDashas
Passed == IF call.fn = "calculateMahadashas" THEN birthDate ELSE call.item.startDate

\* n years of 365.2425 days, in milliseconds, as an exact number
YearsMs(n) == NatMulInt(NatMul(NatOf(31556952), NatOf(1000)), n)

\* b - slack <= a <= b
Within(a, b, slack) == NatLe(a, b) /\ NatLe(b, NatAdd(a, NatOf(slack)))

RECURSIVE SumMs(_, _)
\* the durations end - start of rows i.. added up
SumMs(rows, i) ==
  IF i > Len(rows) THEN <<>>
  ELSE NatAdd(NatSub(rows[i].endDate, rows[i].startDate), SumMs(rows, i + 1))

EndToEnd(rows, start) ==
  /\ Len(rows) = 9
  /\ rows[1].startDate = start
  /\ \A i \in 1..8 : rows[i + 1].startDate = rows[i].endDate

\* C1: the antardashas of every mahadasha row, the first row included, start
\* at the row's start and end at the row's end
C1_AntardashasSpanTheirPeriod ==
  call.fn = "calculateAntarDashas" =>
    /\ subDashas[1].startDate = call.item.startDate
    /\ subDashas[9].endDate = call.item.endDate

\* C2 as stated: each generator returns 9 periods end to end from the instant
\* passed in, and every period ends strictly after it starts
C2_EndToEndStrictlyForward ==
  call.fn # "none" =>
    /\ EndToEnd(Returned, Passed)
    /\ \A i \in 1..9 : NatLt(Returned[i].startDate, Returned[i].endDate)

\* C2: each generator returns 9 periods end to end from the instant passed
\* in; no period ends before it starts, and every period other than the
\* first mahadasha (the balance) ends strictly after it starts
C2_EndToEndForward ==
  call.fn # "none" =>
    /\ EndToEnd(Returned, Passed)
    /\ \A i \in 1..9 :
         /\ NatLe(Returned[i].startDate, Returned[i].endDate)
         /\ (call.fn # "calculateMahadashas" \/ i > 1)
              => NatLt(Returned[i].startDate, Returned[i].endDate)

C2_Witness ==
  /\ call.fn = "calculateMahadashas"
  /\ dashas[1].endDate = dashas[1].startDate
  /\ NatLt(dashas[2].startDate, dashas[2].endDate)

\* the lords of the rows follow the cycle from the first row's lord, and each
\* lord rules one row
CyclicFromFirst(rows) ==
  /\ \A i \in 1..9 :
       rows[i].planet = Str(NAKSHATRA_LORDS[((IndexOfLord(rows[1].planet) + i - 1) % 9) + 1])
  /\ \A l \in Lords : Cardinality({i \in 1..9 : rows[i].planet = Str(l)}) = 1

\* C3 as stated: 9 level-1 periods, the lords in cyclic order each once, and
\* periods 2 to 9 last exactly DASHA_YEARS[lord] years with duration fields
\* (DASHA_YEARS[lord], 0, 0)
C3_FullPeriodsExact ==
  call.fn = "calculateMahadashas" =>
    /\ Len(dashas) = 9
    /\ \A i \in 1..9 : dashas[i].level = 1
    /\ CyclicFromFirst(dashas)
    /\ \A i \in 2..9 :
         /\ dashas[i].endDate = NatAdd(dashas[i].startDate, YearsMs(DashaYearsOf(dashas[i].planet)))
         /\ dashas[i].durationYear = DashaYearsOf(dashas[i].planet)
         /\ dashas[i].durationMonth = 0
         /\ dashas[i].durationDay = 0

\* C3: 9 level-1 periods, the lords in cyclic order each once, and periods 2
\* to 9 last DASHA_YEARS[lord] years of 365.2425 days or one millisecond
\* less, with duration fields (DASHA_YEARS[lord], 0, 0)
C3_FullPeriods ==
  call.fn = "calculateMahadashas" =>
    /\ Len(dashas) = 9
    /\ \A i \in 1..9 : dashas[i].level = 1
    /\ CyclicFromFirst(dashas)
    /\ \A i \in 2..9 :
         /\ Within(dashas[i].endDate,
                   NatAdd(dashas[i].startDate, YearsMs(DashaYearsOf(dashas[i].planet))), 1)
         /\ dashas[i].durationYear = DashaYearsOf(dashas[i].planet)
         /\ dashas[i].durationMonth = 0
         /\ dashas[i].durationDay = 0

C3_Witness ==
  /\ call.fn = "calculateMahadashas"
  /\ dashas[1].planet = Str("Guru")
  /\ dashas[2].planet = Str("Shani")
  /\ NatAdd(dashas[2].endDate, NatOf(1)) = NatAdd(dashas[2].startDate, YearsMs(19))
  /\ dashas[3].endDate = NatAdd(dashas[3].startDate, YearsMs(17))

\* the longitude as the exact fraction num / den of a 27th of the circle
NakshatraPosExact(lon) ==
  [num |-> NatMulInt(ShiftLeft(lon.m, MaxOf(lon.e, 0)), 3),
   den |-> ShiftLeft(NatOf(40), MaxOf(0 - lon.e, 0))]

\* Math.floor(years * (1 - fractional part of pos) * 365.2425 days), in ms
BalanceMsExact(pos, years) ==
  NatDiv(NatMul(YearsMs(years), NatSub(pos.den, NatMod(pos.num, pos.den))), pos.den)

\* C4: the first period is ruled by lordCycle[floor(L / (360/27)) mod 9],
\* starts at birth and lasts DASHA_YEARS[lord] * (1 - frac(L / (360/27)))
\* years (to the second); for L = 54.5 the lord is Kuja and durationYear is 6
C4_FirstPeriodByTwentySeventh ==
  call.fn = "calculateMahadashas" =>
    LET pos == NakshatraPosExact(moonLon)
        firstLord == NAKSHATRA_LORDS[(NatToInt(NatDiv(pos.num, pos.den)) % 9) + 1]
        end == NatAdd(birthDate, BalanceMsExact(pos, DASHA_YEARS[firstLord]))
    IN /\ dashas[1].planet = Str(firstLord)
       /\ dashas[1].startDate = birthDate
       /\ NatLe(dashas[1].endDate, NatAdd(end, NatOf(1000)))
       /\ NatLe(end, NatAdd(dashas[1].endDate, NatOf(1000)))
       /\ moonLon = ExampleLon =>
            dashas[1].planet = Str("Kuja") /\ dashas[1].durationYear = 6

\* C5 as stated: the durations of the antardashas of P sum to DASHA_YEARS[P]
\* years, and the last one ends DASHA_YEARS[P] years after the start
C5_AntardashasSumExact ==
  call.fn = "calculateAntarDashas" =>
    LET total == YearsMs(DashaYearsOf(call.item.planet))
    IN /\ SumMs(subDashas, 1) = total
       /\ subDashas[9].endDate = NatAdd(call.item.startDate, total)

\* C5: the durations of the antardashas of P sum to DASHA_YEARS[P] years of
\* 365.2425 days less at most one millisecond for each of the 9 periods, and
\* the last one ends that long after the start
C5_AntardashasSum ==
  call.fn = "calculateAntarDashas" =>
    LET total == YearsMs(DashaYearsOf(call.item.planet))
    IN /\ Within(SumMs(subDashas, 1), total, 9)
       /\ Within(subDashas[9].endDate, NatAdd(call.item.startDate, total), 9)

C5_Witness ==
  /\ call.fn = "calculateAntarDashas"
  /\ call.item.planet = Str("Ketu")
  /\ SumMs(subDashas, 1) # YearsMs(7)
  /\ Within(SumMs(subDashas, 1), YearsMs(7), 9)

\* DASHA_YEARS[G] * DASHA_YEARS[P] / 120 years of 365.2425 days, in ms
AntarMs(g, p) == NatDiv(YearsMs(DashaYearsOf(g) * DashaYearsOf(p)), NatOf(120))

SubLordsFrom(rows, prefix, first, lvl, chain) ==
  /\ Len(rows) = 9
  /\ \A i \in 0..8 :
       LET sub == NAKSHATRA_LORDS[((IndexOfLord(first) + i) % 9) + 1]
       IN /\ rows[i + 1].planet = prefix \o <<" - ", sub>>
          /\ rows[i + 1].level = lvl
          /\ rows[i + 1].parentPlanets = chain
  /\ \A l \in Lords :
       Cardinality({i \in 1..9 : rows[i].planet[Len(rows[i].planet)] = l}) = 1

\* C7: the antardashas of P are ruled by the lords in cyclic order from P,
\* each once, labelled 'P - sub' at level 2 with parent chain [P]; the
\* pratyantardashas of (G, P) likewise from P, labelled 'G - P - sub' at level
\* 3 with parent chain [G, P]
C7_SubLordsInCycle ==
  /\ call.fn = "calculateAntarDashas" =>
       SubLordsFrom(subDashas, call.item.planet, call.item.planet, 2, <<call.item.planet>>)
  /\ call.fn = "calculatePratyantarDashas" =>
       LET parts == Split(call.item.planet, " - ")
       IN SubLordsFrom(subDashas, call.item.planet, parts[2], 3, <<parts[1], parts[2]>>)

C7_Witness ==
  /\ call.fn = "calculatePratyantarDashas"
  /\ subDashas[1].planet = <<"Rahu", " - ", "Guru", " - ", "Guru">>
  /\ subDashas[9].planet = <<"Rahu", " - ", "Guru", " - ", "Rahu">>
  /\ subDashas[9].parentPlanets = <<Str("Rahu"), Str("Guru")>>

RECURSIVE SumOfYears(_, _)
\* DASHA_YEARS summed over the lords names[i], names[i + 1], ...
SumOfYears(names, i) ==
  IF i > Len(names) THEN 0 ELSE DASHA_YEARS[names[i]] + SumOfYears(names, i + 1)

\* C18: DASHA_YEARS has an entry for each of the 9 lords of NAKSHATRA_LORDS
\* and for nothing else, and the 9 entries sum to 120; so do the entries of
\* the lords of the 9 rows calculateMahadashas returns
C18_DashaYearsTable ==
  /\ Len(NAKSHATRA_LORDS) = 9
  /\ Cardinality(Lords) = 9
  /\ DOMAIN DASHA_YEARS = Lords
  /\ SumOfYears(NAKSHATRA_LORDS, 1) = 120
  /\ call.fn = "calculateMahadashas"
       => /\ {dashas[k].planet[1] : k \in 1..Len(dashas)} = DOMAIN DASHA_YEARS
          /\ SumOfYears([k \in 1..Len(dashas) |-> dashas[k].planet[1]], 1) = 120

\* nine mahadashas from Shani on, Rahu with its 18 years among them
C18_Witness ==
  /\ call.fn = "calculateMahadashas"
  /\ Len(dashas) = 9
  /\ dashas[1].planet = Str("Shani")
  /\ \E k \in 2..9 : dashas[k].planet = Str("Rahu") /\ dashas[k].durationYear = 18

(***************************************************************************)
(* CityService.  A place name is the sequence of its characters.  The      *)
(* list cities holds rows of the table in the table's order; a coordinate  *)
(* is a count of 10^-5 degree, which names the number parsed from a        *)
(* decimal of at most five places.                                         *)
(***************************************************************************)
UpperCase ==
  <<"A", "B", "C", "D", "E", "F", "G", "H", "I", "J", "K", "L", "M",
    "N", "O", "P", "Q", "R", "S", "T", "U", "V", "W", "X", "Y", "Z">>

LowerCase ==
  <<"a", "b", "c", "d", "e", "f", "g", "h", "i", "j", "k", "l", "m",
    "n", "o", "p", "q", "r", "s", "t", "u", "v", "w", "x", "y", "z">>

IndexIn(c, letters) ==
  IF \E k \in 1..Len(letters) : letters[k] = c
  THEN CHOOSE k \in 1..Len(letters) : letters[k] = c
  ELSE 0

\* s.toLowerCase()
toLowerCase(s) ==
  [k \in 1..Len(s) |->
     IF IndexIn(s[k], UpperCase) > 0 THEN LowerCase[IndexIn(s[k], UpperCase)] ELSE s[k]]

IsWhiteSpace(c) == c \in {" ", "\t", "\n", "\r"}

\* s.trim()
trim(s) ==
  IF \A k \in 1..Len(s) : IsWhiteSpace(s[k]) THEN <<>>
  ELSE SubSeq(s,
              CHOOSE i \in 1..Len(s) :
                ~IsWhiteSpace(s[i]) /\ \A k \in 1..(i - 1) : IsWhiteSpace(s[k]),
              CHOOSE j \in 1..Len(s) :
                ~IsWhiteSpace(s[j]) /\ \A k \in (j + 1)..Len(s) : IsWhiteSpace(s[k]))

\* whether t occurs in s at the 0-based position i
OccursAt(s, t, i) ==
  /\ i + Len(t) <= Len(s)
  /\ \A k \in 1..Len(t) : s[i + k] = t[k]

startsWith(s, t) == OccursAt(s, t, 0)

includes(s, t) == \E i \in 0..Len(s) : OccursAt(s, t, i)

\* s.indexOf(t) when t occurs in s
indexOf(s, t) ==
  CHOOSE i \in 0..Len(s) : OccursAt(s, t, i) /\ \A k \in 0..(i - 1) : ~OccursAt(s, t, k)

RECURSIVE LevenshteinCells(_, _, _, _, _)
\* the cells matrix[i][1..] of one row, left to right; row holds
\* matrix[i][0..j-1] and prev the whole row matrix[i-1]
LevenshteinCells(a, b, i, prev, row) ==
  LET j == Len(row)
  IN IF j > Len(a) THEN row
     ELSE LevenshteinCells(a, b, i, prev,
            Append(row,
                   IF b[i] = a[j]
                   THEN prev[j]
                   ELSE MinOf(prev[j] + 1, MinOf(row[j] + 1, prev[j + 1] + 1))))

RECURSIVE LevenshteinRows(_, _, _, _)
LevenshteinRows(a, b, i, prev) ==
  IF i > Len(b) THEN prev
  ELSE LevenshteinRows(a, b, i + 1, LevenshteinCells(a, b, i, prev, <<i>>))

levenshtein(a, b) ==
  IF Len(a) = 0 THEN Len(b)
  ELSE IF Len(b) = 0 THEN Len(a)
  ELSE LevenshteinRows(a, b, 1, [j \in 1..(Len(a) + 1) |-> j - 1])[Len(a) + 1]

\* rows 488, 618, 658, 1653, 2352, 2654, 2877, 3427 and 3448 of the table,
\* as parseCSV leaves them in the list
cities ==
  << [state |-> "Bihar", name |-> <<"G", "a", "y", "a">>,
      lat |-> 2479686, lng |-> 8500385],
     [state |-> "Chhattisgarh", name |-> <<"K", "o", "t", "a">>,
      lat |-> 2229507, lng |-> 8202366],
     [state |-> "Delhi", name |-> <<"N", "e", "w", " ", "D", "e", "l", "h", "i">>,
      lat |-> 2863576, lng |-> 7722445],
     [state |-> "Madhya Pradesh", name |-> <<"A", "g", "a", "r">>,
      lat |-> 2371177, lng |-> 7601571],
     [state |-> "Maharashtra", name |-> <<"P", "u", "n", "e">>,
      lat |-> 1851957, lng |-> 7385535],
     [state |-> "Odisha", name |-> <<"P", "u", "r", "i">>,
      lat |-> 1990000, lng |-> 8560000],
     [state |-> "Rajasthan", name |-> <<"K", "o", "t", "a">>,
      lat |-> 2517512, lng |-> 7584412],
     [state |-> "Tripura", name |-> <<"A", "g", "a", "r", "t", "a", "l", "a">>,
      lat |-> 2383605, lng |-> 9127939],
     [state |-> "Uttar Pradesh", name |-> <<"A", "g", "r", "a">>,
      lat |-> 2718333, lng |-> 7801667] >>

\* the score of one city, in hundredths: 2 + position * 0.01 is 200 + position
CityScore(cityName, normalizedQuery, maxFuzzyDist) ==
  IF cityName = normalizedQuery THEN 0
  ELSE IF startsWith(cityName, normalizedQuery) THEN 100
  ELSE IF includes(cityName, normalizedQuery)
       THEN 200 + indexOf(cityName, normalizedQuery)
  ELSE IF maxFuzzyDist > 0
       THEN LET Fuzzy(dist) == IF dist <= maxFuzzyDist THEN 1000 + 100 * dist ELSE 100000
            IN Fuzzy(levenshtein(normalizedQuery, cityName))
  ELSE 100000

\* the place of a character in the collation: letters in alphabetical order
\* whatever their case, after the space
CollationRank(c) == IndexIn(toLowerCase(<<c>>)[1], LowerCase)

RECURSIVE localeCompareFrom(_, _, _)
localeCompareFrom(x, y, k) ==
  IF k > Len(x) /\ k > Len(y)
  THEN IF \E i \in 1..Len(x) : x[i] # y[i]
       THEN LET i == CHOOSE i \in 1..Len(x) :
                       x[i] # y[i] /\ \A h \in 1..(i - 1) : x[h] = y[h]
            IN IF IndexIn(x[i], LowerCase) > 0 THEN -1 ELSE 1
       ELSE 0
  ELSE IF k > Len(x) THEN -1
  ELSE IF k > Len(y) THEN 1
  ELSE IF CollationRank(x[k]) < CollationRank(y[k]) THEN -1
  ELSE IF CollationRank(x[k]) > CollationRank(y[k]) THEN 1
  ELSE localeCompareFrom(x, y, k + 1)

\* x.localeCompare(y) for names of letters and spaces
localeCompare(x, y) == localeCompareFrom(x, y, 1)

\* the comparison function given to sort
CompareCandidates(a, b) ==
  IF a.score # b.score THEN a.score - b.score
  ELSE IF Len(a.city.name) # Len(b.city.name) THEN Len(a.city.name) - Len(b.city.name)
  ELSE localeCompare(a.city.name, b.city.name)

\* x put into sorted behind every item that does not come after it
InsertCandidate(x, sorted) ==
  LET At(k) == SubSeq(sorted, 1, k - 1) \o <<x>> \o SubSeq(sorted, k, Len(sorted))
  IN IF \E k \in 1..Len(sorted) : CompareCandidates(sorted[k], x) > 0
     THEN At(CHOOSE k \in 1..Len(sorted) :
               /\ CompareCandidates(sorted[k], x) > 0
               /\ \A h \in 1..(k - 1) : CompareCandidates(sorted[h], x) <= 0)
     ELSE Append(sorted, x)

RECURSIVE SortFrom(_, _, _)
\* Array.prototype.sort: the stable order of items under CompareCandidates
SortFrom(items, i, sorted) ==
  IF i > Len(items) THEN sorted
  ELSE SortFrom(items, i + 1, InsertCandidate(items[i], sorted))

searchCities(query) ==
  IF query = <<>> \/ Len(trim(query)) < 2 THEN <<>>
  ELSE LET Search(normalizedQuery, maxFuzzyDist) ==
             LET candidates ==
                   [k \in 1..Len(cities) |->
                      [city |-> cities[k],
                       score |-> CityScore(toLowerCase(cities[k].name),
                                           normalizedQuery, maxFuzzyDist)]]
                 Top(sorted) ==
                   [k \in 1..MinOf(20, Len(sorted)) |-> sorted[k].city]
             IN Top(SortFrom(SelectSeq(candidates, LAMBDA c : c.score < 100000), 1, <<>>))
           WithQuery(normalizedQuery) ==
             Search(normalizedQuery,
                    IF Len(normalizedQuery) <= 3 THEN 0
                    ELSE IF Len(normalizedQuery) <= 6 THEN 1 ELSE 2)
       IN WithQuery(trim(toLowerCase(query)))

\* the lookup made with the whole place, commas and what follows them included
getCoordinatesWholePlace(place) ==
  LET First(found) ==
        IF Len(found) > 0
        THEN [lat |-> found[1].lat, lon |-> found[1].lng]
        ELSE [lat |-> 2861390, lon |-> 7720900]
  IN First(searchCities(place))

\* AstrologyService.getCoordinatesLocal
getCoordinatesLocal(place) ==
  LET First(found) ==
        IF Len(found) > 0
        THEN [lat |-> found[1].lat, lon |-> found[1].lng]
        ELSE [lat |-> 2861390, lon |-> 7720900]
  IN First(searchCities(Split(place, ",")[1]))

(***************************************************************************)
(* AstrologyService.calculateChart.  The ephemeris library is not part of  *)
(* the repository: a call of it returns or throws, and sky.fault names the *)
(* sampled body at whose GeoVector call it throws (0: it never throws).    *)
(* sky.elon and sky.elonPrev are the ecliptic longitudes it gives for the  *)
(* seven bodies at the date and one hour before, sky.ascDeg the angle of   *)
(* the ascendant computed from its sidereal time, sky.ut its day count.    *)
(* The trace of a call lists, in the order of the statements, what the     *)
(* call computed before it settled.                                        *)
(***************************************************************************)
PLANET_NAME_MAP ==
  [Sun |-> "Surya", Moon |-> "Chandra", Mars |-> "Kuja", Mercury |-> "Budha",
   Jupiter |-> "Guru", Venus |-> "Shukra", Saturn |-> "Shani", Rahu |-> "Rahu",
   Ketu |-> "Ketu", Ascendant |-> "Lagna"]

bodyMap == <<"Sun", "Moon", "Mars", "Mercury", "Jupiter", "Venus", "Saturn">>

\* the decimal literal of the digits with that many of them after the point
Deg(digits, places) == DblLiteral(NatOf(digits), places)

\* the decimal literal whose digits are those of millions followed by the
\* six digits of units
DegOfMillions(millions, units, places) ==
  DblLiteral(NatAdd(NatMul(NatOf(millions), NatOf(1000000)), NatOf(units)), places)

SIGNS ==
  <<"Mesha", "Vrishabha", "Mithuna", "Karkataka", "Simha", "Kanya", "Tula",
    "Vrischika", "Dhanu", "Makara", "Kumbha", "Meena">>

NAKSHATRAS ==
  <<"Ashwini", "Bharani", "Krittika", "Rohini", "Mrigashira", "Ardra",
    "Punarvasu", "Pushya", "Ashlesha", "Magha", "Purva Phalguni",
    "Uttara Phalguni", "Hasta", "Chitra", "Swati", "Vishakha", "Anuradha",
    "Jyeshtha", "Mula", "Purva Ashadha", "Uttara Ashadha", "Shravana",
    "Dhanishta", "Shatabhisha", "Purva Bhadrapada", "Uttara Bhadrapada", "Revati">>

RASI_LORDS ==
  [Mesha |-> "Kuja", Vrishabha |-> "Shukra", Mithuna |-> "Budha",
   Karkataka |-> "Chandra", Simha |-> "Surya", Kanya |-> "Budha",
   Tula |-> "Shukra", Vrischika |-> "Kuja", Dhanu |-> "Guru", Makara |-> "Shani",
   Kumbha |-> "Shani", Meena |-> "Guru"]

\* array[index]: undefined when the array has no such element
ElementAt(array, index) ==
  IF index \in 0..(Len(array) - 1) THEN array[index + 1] ELSE "undefined"

\* table[key]: undefined when the table has no such key
ValueAt(table, key) ==
  IF key \in DOMAIN table THEN table[key] ELSE "undefined"

\* a || fallback for a string a that is not empty
OrElse(a, fallback) == IF a = "undefined" THEN fallback ELSE a

\* if (d < 0) d += 360
raisedIfNegative(d) == IF SgnLt(d, SgnOfInt(0)) THEN SgnAdd(d, SgnOfInt(360)) ELSE d

normalize(deg) == raisedIfNegative(SgnMod(deg, FullCircle))

\* `${d}° ${m.toString().padStart(2, '0')}'` for 0 <= deg: the degrees, the
\* two digits of the minutes
DMSText(d, m) == <<d, "° ", m \div 10, m % 10, "'">>

\* the text for deg whose Math.floor is d
DMSOf(deg, d) ==
  DMSText(NatToInt(d), NatToInt(DblFloor(DblMul(DblSub(deg, DblOfNat(d)), DblOfInt(60)))))

toDMS(deg) == DMSOf(deg, DblFloor(deg))

\* the index of a navamsa 3 degrees wide
navamsaIndexOfThreeDegrees(lon) ==
  NatToInt(NatMod(DblFloor(DblDiv(DblMul(lon, DblOfInt(60)), DblOfInt(180))), NatOf(12)))

calculateNavamsaIndex(lon) ==
  NatToInt(NatMod(DblFloor(DblDiv(DblMul(lon, DblOfInt(60)), DblOfInt(200))), NatOf(12)))

rules ==
  [Surya |-> [ex |-> "Mesha", deb |-> "Tula", own |-> <<"Simha">>],
   Chandra |-> [ex |-> "Vrishabha", deb |-> "Vrischika", own |-> <<"Karkataka">>],
   Kuja |-> [ex |-> "Makara", deb |-> "Karkataka", own |-> <<"Mesha", "Vrischika">>],
   Budha |-> [ex |-> "Kanya", deb |-> "Meena", own |-> <<"Mithuna", "Kanya">>],
   Guru |-> [ex |-> "Karkataka", deb |-> "Makara", own |-> <<"Dhanu", "Meena">>],
   Shukra |-> [ex |-> "Meena", deb |-> "Kanya", own |-> <<"Vrishabha", "Tula">>],
   Shani |-> [ex |-> "Tula", deb |-> "Mesha", own |-> <<"Makara", "Kumbha">>],
   Rahu |-> [ex |-> "Vrishabha", deb |-> "Vrischika", own |-> <<"Kumbha">>],
   Ketu |-> [ex |-> "Vrischika", deb |-> "Vrishabha", own |-> <<"Vrischika">>],
   Lagna |-> [ex |-> "", deb |-> "", own |-> <<>>]]

\* calculateDignity with the own signs looked at before the exaltation sign
calculateDignityOwnFirst(planet, sign) ==
  IF planet \notin DOMAIN rules THEN "-"
  ELSE LET rule == rules[planet]
       IN IF \E k \in 1..Len(rule.own) : rule.own[k] = sign THEN "Own Sign"
          ELSE IF sign = rule.ex THEN "Exalted"
          ELSE IF sign = rule.deb THEN "Debilitated"
          ELSE "Neutral"

calculateDignity(planet, sign) ==
  IF planet \notin DOMAIN rules THEN "-"
  ELSE LET rule == rules[planet]
       IN IF sign = rule.ex THEN "Exalted"
          ELSE IF sign = rule.deb THEN "Debilitated"
          ELSE IF \E k \in 1..Len(rule.own) : rule.own[k] = sign THEN "Own Sign"
          ELSE "Neutral"

\* the literal 13.3333333 of formatPlanet
nakshatraSpanOfPoint == DblLiteral(NatOf(133333333), 7)

\* lon - (ascLon - 15), 360 added when it is negative, then % 360
adjLonOf(lon, ascLon) ==
  SgnMod(raisedIfNegative(SgnSub(Pos(lon), SgnSub(Pos(ascLon), SgnOfInt(15)))),
         FullCircle).abs

\* the sign index taken as the multiple of 30 nearest to the longitude
signIndexRounded(lon) ==
  NatToInt(DblFloor(DblAdd(DblDiv(lon, DblOfInt(30)), Deg(5, 1))))

\* Math.floor(lon / 30)
signIndexOf(lon) == NatToInt(DblFloor(DblDiv(lon, DblOfInt(30))))

\* Math.floor(lon / 13.3333333)
nakshatraIndexOf(lon) == NatToInt(DblFloor(DblDiv(lon, nakshatraSpanOfPoint)))

\* the house counted from the ascendant itself, not from 15 degrees before it
houseFromAscendant(lon, ascLon) ==
  NatToInt(DblFloor(DblDiv(adjLonOf(lon, DblAdd(ascLon, DblOfInt(15))), DblOfInt(30)))) + 1

\* Math.floor(adjLon / 30) + 1
houseOf(lon, ascLon) ==
  NatToInt(DblFloor(DblDiv(adjLonOf(lon, ascLon), DblOfInt(30)))) + 1

\* the object formatPlanet returns, from the values it has computed
PlanetData(name, lon, isRetrograde, signIndex, sign, nakshatraIndex, navamsaSignIndex, house) ==
  [name |-> name,
   sign |-> sign,
   signId |-> signIndex + 1,
   degree |-> toDMS(DblMod(lon, DblOfInt(30))),
   position |-> toDMS(lon),
   nakshatra |-> OrElse(ElementAt(NAKSHATRAS, nakshatraIndex), "Unknown"),
   nakshatraLord |-> ElementAt(NAKSHATRA_LORDS, nakshatraIndex % 9),
   rasiLord |-> OrElse(ValueAt(RASI_LORDS, sign), "-"),
   dignity |-> calculateDignity(name, sign),
   isRetrograde |-> isRetrograde,
   longitude |-> lon,
   house |-> house,
   navamsaSign |-> ElementAt(SIGNS, navamsaSignIndex)]

\* formatPlanet once the sign index is known
PlanetInSign(englishName, lon, isRetrograde, ascLon, signIndex) ==
  PlanetData(OrElse(ValueAt(PLANET_NAME_MAP, englishName), englishName), lon, isRetrograde,
             signIndex, ElementAt(SIGNS, signIndex), nakshatraIndexOf(lon),
             calculateNavamsaIndex(lon), houseOf(lon, ascLon))

formatPlanet(englishName, lon, isRetrograde, ascLon) ==
  PlanetInSign(englishName, lon, isRetrograde, ascLon, signIndexOf(lon))

\* if (diff < -180) diff += 360
raisedBelowHalfTurn(diff) ==
  IF SgnLt(diff, Sgn(TRUE, DblOfInt(180))) THEN SgnAdd(diff, SgnOfInt(360)) ELSE diff

\* if (diff > 180) diff -= 360
loweredAboveHalfTurn(diff) ==
  IF SgnLt(SgnOfInt(180), diff) THEN SgnSub(diff, SgnOfInt(360)) ELSE diff

\* the test of the sampled difference: diff < 0 once brought into -180..180
movesBackwards(elon, elonPrev) ==
  SgnLt(loweredAboveHalfTurn(raisedBelowHalfTurn(SgnSub(Pos(elon), Pos(elonPrev)))),
        SgnOfInt(0))

\* the test of the sampled difference made for every body, the Sun and the
\* Moon included
isRetrogradeOfAnyBody(englishName, elon, elonPrev) == movesBackwards(elon, elonPrev)

\* whether a body is seen to move backwards over the hour before the date:
\* never the Sun or the Moon; the others when elon - elonPrev, brought
\* into -180..180, is negative
isRetrogradeOf(englishName, elon, elonPrev) ==
  /\ englishName # "Sun"
  /\ englishName # "Moon"
  /\ movesBackwards(elon, elonPrev)

\* normalize(125.04452 - 1934.136261 * T + 0.0020708 * T * T + (T * T * T) / 450000)
\* with jd = ut + 2451545.0 and T = (jd - 2451545.0) / 36525
meanNodeLonOfCenturies(T) ==
  normalize(SgnAdd(SgnAdd(SgnSub(Pos(DblLiteral(NatOf(12504452), 5)),
                                 SgnMul(Pos(DblLiteral(NatOf(1934136261), 6)), T)),
                          SgnMul(SgnMul(Pos(DblLiteral(NatOf(20708), 7)), T), T)),
                   SgnDiv(SgnMul(SgnMul(T, T), T), SgnOfInt(450000))))

meanNodeLonAt(ut) ==
  meanNodeLonOfCenturies(SgnDiv(SgnSub(SgnAdd(ut, SgnOfInt(2451545)), SgnOfInt(2451545)),
                                SgnOfInt(36525)))

\* the three points with Ketu left at the longitude of Rahu
PointsWithKetuAtRahu(siderealRahu, siderealAsc) ==
  <<formatPlanet("Rahu", siderealRahu.abs, TRUE, siderealAsc),
    formatPlanet("Ketu", siderealRahu.abs, TRUE, siderealAsc),
    formatPlanet("Ascendant", siderealAsc, FALSE, siderealAsc)>>

\* the three points pushed after the loop: Rahu, Ketu and the ascendant
PointsAfterLoop(siderealRahu, siderealAsc) ==
  <<formatPlanet("Rahu", siderealRahu.abs, TRUE, siderealAsc),
    formatPlanet("Ketu", normalize(SgnAdd(siderealRahu, SgnOfInt(180))).abs, TRUE,
                 siderealAsc),
    formatPlanet("Ascendant", siderealAsc, FALSE, siderealAsc)>>

NodesAndAscendant(sky, ayanamsa, siderealAsc) ==
  PointsAfterLoop(normalize(SgnSub(meanNodeLonAt(sky.ut), Pos(ayanamsa))), siderealAsc)

\* one pass of the loop over bodyMap: the point of the i-th body
PointOfBody(sky, ayanamsa, siderealAsc, i) ==
  formatPlanet(bodyMap[i],
               normalize(SgnSub(Pos(sky.elon[i]), Pos(ayanamsa))).abs,
               isRetrogradeOf(bodyMap[i], sky.elon[i], sky.elonPrev[i]),
               siderealAsc)

RECURSIVE BodyLoopKeepingPoints(_, _, _, _, _)
\* the loop over the sampled bodies ended at the first body whose sample
\* fails, the points made so far returned
BodyLoopKeepingPoints(sky, ayanamsa, siderealAsc, i, results) ==
  IF i > Len(bodyMap)
  THEN [thrown |-> FALSE,
        planets |-> results \o NodesAndAscendant(sky, ayanamsa, siderealAsc)]
  ELSE IF sky.fault = i THEN [thrown |-> FALSE, planets |-> results]
  ELSE BodyLoopKeepingPoints(sky, ayanamsa, siderealAsc, i + 1,
                             Append(results, PointOfBody(sky, ayanamsa, siderealAsc, i)))

RECURSIVE BodyLoop(_, _, _, _, _)
\* the loop over the sampled bodies, then the nodes and the ascendant
BodyLoop(sky, ayanamsa, siderealAsc, i, results) ==
  IF i > Len(bodyMap)
  THEN [thrown |-> FALSE,
        planets |-> results \o NodesAndAscendant(sky, ayanamsa, siderealAsc)]
  ELSE IF sky.fault = i THEN [thrown |-> TRUE]
  ELSE BodyLoop(sky, ayanamsa, siderealAsc, i + 1,
                Append(results, PointOfBody(sky, ayanamsa, siderealAsc, i)))

\* sky.ascDeg is ascRad * (180 / Math.PI), the angle Math.atan2 gives for the
\* sidereal time of the library
calculatePositions(sky, ayanamsa) ==
  BodyLoop(sky, ayanamsa, normalize(SgnSub(normalize(sky.ascDeg), Pos(ayanamsa))).abs,
           1, <<>>)

\* 23.85 + 0.0139 * (year - 2000) with year = getFullYear() + getMonth() / 12,
\* for a date of the year 2000 or later
ayanamsaAt(dt) ==
  DblAdd(DblLiteral(NatOf(2385), 2),
         DblMul(DblLiteral(NatOf(139), 4),
                DblSub(DblAdd(DblOfInt(dt.year), DblDiv(DblOfInt(dt.month - 1), DblOfInt(12))),
                       DblOfInt(2000))))

\* what calculateChart has computed when it looks at the date: the coordinates
looked(coords) == <<[step |-> "getCoordinatesLocal", value |-> coords]>>

\* and when calculatePositions has returned or thrown
computed(coords, ayanamsa) ==
  looked(coords) \o <<[step |-> "Astronomy.MakeTime"],
                      [step |-> "ayanamsa", value |-> ayanamsa],
                      [step |-> "calculatePositions"]>>

\* calculateChart from calculatePositions on, for a date that names an instant
ChartOfPositions(details, coords, ayanamsa, positions) ==
  IF positions.thrown
  THEN [thrown |-> TRUE, error |-> "Astronomy", trace |-> computed(coords, ayanamsa)]
  ELSE [thrown |-> FALSE, trace |-> computed(coords, ayanamsa),
        chart |-> [planets |-> positions.planets,
                   ayanamsa |-> ayanamsa,
                   meta |-> [dt |-> details.dt, place |-> details.place]]]

\* calculateChart from the ayanamsa on
ChartOfAyanamsa(details, sky, coords, ayanamsa) ==
  ChartOfPositions(details, coords, ayanamsa, calculatePositions(sky, ayanamsa))

\* calculateChart after its lookup of the place
ChartOfCoords(details, sky, coords) ==
  IF ~ValidDateTime(details.dt)
  THEN [thrown |-> TRUE, error |-> "Invalid Date or Time provided.",
        trace |-> looked(coords)]
  ELSE ChartOfAyanamsa(details, sky, coords, ayanamsaAt(details.dt))

calculateChart(details, sky) ==
  ChartOfCoords(details, sky, getCoordinatesLocal(details.place))

(***************************************************************************)
(* AppComponent.  A generateChart call runs to its first await in one      *)
(* step; the continuation after calculateChart settles runs before any     *)
(* other task, the one after the 800 ms delay as a task of its own.        *)
(***************************************************************************)
MaxInFlight == 2

\* "Agra, UP" and "Xy"
ChartPlaces ==
  { <<"A", "g", "r", "a", ",", " ", "U", "P">>, <<"X", "y">> }

\* 2000-01-01T05:30, 2024-02-29T12:00, 2024-13-01T12:00 and 2023-06-15T10:60
ChartDateTimes ==
  { [year |-> 2000, month |-> 1, day |-> 1, hour |-> 5, minute |-> 30],
    [year |-> 2024, month |-> 2, day |-> 29, hour |-> 12, minute |-> 0],
    [year |-> 2024, month |-> 13, day |-> 1, hour |-> 12, minute |-> 0],
    [year |-> 2023, month |-> 6, day |-> 15, hour |-> 10, minute |-> 60] }

\* 2024-02-29: the Sun and the Moon sampled further back than an hour
\* before, Mars and Saturn moving backwards, Mercury and Jupiter crossing
\* 0 degrees forwards and backwards
SkyOfLeapDay ==
  [ascDeg |-> Sgn(TRUE, Deg(123456, 3)),
   ut |-> Pos(Deg(88255, 1)),
   elon |-> <<Deg(3402, 1), Deg(16875, 2), Deg(3105, 1), Deg(1, 2), Deg(35999, 2),
              Deg(31525, 2), Deg(3391, 1)>>,
   elonPrev |-> <<Deg(3403, 1), Deg(1692, 1), Deg(31051, 2), Deg(35999, 2), Deg(1, 2),
                  Deg(3152, 1), Deg(33911, 2)>>]

\* 2000-01-01: every body moving forwards, Venus at the longitude it had
\* an hour before
SkyOfNewYear ==
  [ascDeg |-> Pos(Deg(4725, 2)),
   ut |-> Sgn(TRUE, Deg(5, 1)),
   elon |-> <<Deg(2804, 1), Deg(2182, 1), Deg(3279, 1), Deg(2719, 1), Deg(252, 1),
              Deg(2413, 1), Deg(404, 1)>>,
   elonPrev |-> <<Deg(28035, 2), Deg(2177, 1), Deg(32788, 2), Deg(27185, 2), Deg(2519, 2),
                  Deg(2413, 1), Deg(4039, 2)>>]

Skies ==
  { [fault |-> k, ascDeg |-> SkyOfLeapDay.ascDeg, ut |-> SkyOfLeapDay.ut,
     elon |-> SkyOfLeapDay.elon, elonPrev |-> SkyOfLeapDay.elonPrev] :
      k \in 0..Len(bodyMap) }
  \cup { [fault |-> 0, ascDeg |-> SkyOfNewYear.ascDeg, ut |-> SkyOfNewYear.ut,
          elon |-> SkyOfNewYear.elon, elonPrev |-> SkyOfNewYear.elonPrev] }

ChartDetails == {[dt |-> dt, place |-> p] : dt \in ChartDateTimes, p \in ChartPlaces}

\* what calculateChart does for each of the details and each of the skies
calculateChartOf ==
  [details \in ChartDetails, sky \in Skies |-> calculateChart(details, sky)]

InitDashaIdle ==
  /\ tz = 0
  /\ moonLon = ZeroLon
  /\ birthDate = <<>>
  /\ dashas = <<>>
  /\ call = [fn |-> "none"]
  /\ subDashas = <<>>
  /\ history = <<>>
  /\ passedDate = <<>>
  /\ level = 1
  /\ currentRows = <<>>

InitApp ==
  /\ InitAppComponent
  /\ InitStorageIdle
  /\ InitDashaIdle
  /\ placeInput = <<>>
  /\ InitCityLookup
  /\ InitPlanetIdle

\* generateChart up to its await of calculateChart
generateChart(details, sky) ==
  /\ awaiting.at = "none"
  /\ ~hasData
  /\ Len(timers) < MaxInFlight
  /\ isLoading' = TRUE
  /\ awaiting' = [at |-> "calculateChart", details |-> details,
                  result |-> calculateChartOf[details, sky]]
  /\ UNCHANGED <<hasData, chartData, activeTab, timers, settled, dashaVars, cityVars, planetVars,
                 storageVars>>

\* calculateChart has thrown: catch, then finally
CalculateChartRejected ==
  /\ awaiting.at = "calculateChart"
  /\ awaiting.result.thrown
  /\ isLoading' = FALSE
  /\ awaiting' = [at |-> "none"]
  /\ settled' = [how |-> "rejected", error |-> awaiting.result.error]
  /\ UNCHANGED <<hasData, chartData, activeTab, timers, dashaVars, cityVars, planetVars,
                 storageVars>>

\* calculateChart has returned: the 800 ms delay starts
CalculateChartResolved ==
  /\ awaiting.at = "calculateChart"
  /\ ~awaiting.result.thrown
  /\ timers' = Append(timers, awaiting.result.chart)
  /\ awaiting' = [at |-> "none"]
  /\ UNCHANGED <<hasData, isLoading, chartData, activeTab, settled, dashaVars, cityVars, planetVars,
                 storageVars>>

\* the oldest delay is over: the rest of the try block, then finally
DelayElapsed ==
  /\ awaiting.at = "none"
  /\ timers # <<>>
  /\ chartData' = Head(timers)
  /\ hasData' = TRUE
  /\ activeTab' = "charts"
  /\ isLoading' = FALSE
  /\ timers' = Tail(timers)
  /\ settled' = [how |-> "shown"]
  /\ UNCHANGED <<awaiting, dashaVars, cityVars, planetVars, storageVars>>

reset ==
  /\ awaiting.at = "none"
  /\ hasData
  /\ hasData' = FALSE
  /\ chartData' = Null
  /\ isLoading' = FALSE
  /\ UNCHANGED <<activeTab, awaiting, timers, settled, dashaVars, cityVars, planetVars,
                 storageVars>>

\* a click on one of the two tab buttons
SetActiveTab(tab) ==
  /\ awaiting.at = "none"
  /\ hasData
  /\ activeTab' = tab
  /\ UNCHANGED <<hasData, isLoading, chartData, awaiting, timers, settled,
                 dashaVars, cityVars, planetVars, storageVars>>

NextApp ==
  \/ \E details \in ChartDetails, sky \in Skies : generateChart(details, sky)
  \/ CalculateChartRejected
  \/ CalculateChartResolved
  \/ DelayElapsed
  \/ reset
  \/ \E tab \in {"charts", "planets"} : SetActiveTab(tab)

SpecApp == InitApp /\ [][NextApp]_vars

(***************************************************************************)
(* The city lookups of the birth form and of calculateChart                *)
(***************************************************************************)
MaxPlaceLen == 3

PlaceAlphabet == {"A", "a", "g", "r", ",", " "}

\* "Kota", "Delhi", "Punee", "Agartla, Tripura", "Mumbai", "agratala" and
\* "Agra, Uttar Pradesh"
LongerPlaces ==
  { <<"K", "o", "t", "a">>,
    <<"D", "e", "l", "h", "i">>,
    <<"P", "u", "n", "e", "e">>,
    <<"A", "g", "a", "r", "t", "l", "a", ",", " ", "T", "r", "i", "p", "u", "r", "a">>,
    <<"M", "u", "m", "b", "a", "i">>,
    <<"a", "g", "r", "a", "t", "a", "l", "a">>,
    <<"A", "g", "r", "a", ",", " ", "U", "t", "t", "a", "r", " ",
      "P", "r", "a", "d", "e", "s", "h">> }

Places ==
  LongerPlaces \cup UNION { [1..n -> PlaceAlphabet] : n \in 0..MaxPlaceLen }

InitCity ==
  /\ placeInput \in Places
  /\ InitCityLookup
  /\ InitAppComponent
  /\ InitStorageIdle
  /\ InitDashaIdle
  /\ InitPlanetIdle

\* the birth form's suggestions for the text typed
CallSearchCities ==
  /\ cityCall.fn = "none"
  /\ Len(placeInput) > 1
  /\ foundCities' = searchCities(placeInput)
  /\ cityCall' = [fn |-> "searchCities"]
  /\ UNCHANGED <<placeInput, foundCoords, dashaVars, appVars, planetVars, storageVars>>

\* calculateChart's lookup of details.place
CallGetCoordinatesLocal ==
  /\ cityCall.fn # "getCoordinatesLocal"
  /\ foundCoords' = getCoordinatesLocal(placeInput)
  /\ cityCall' = [fn |-> "getCoordinatesLocal"]
  /\ UNCHANGED <<placeInput, foundCities, dashaVars, appVars, planetVars, storageVars>>

NextCity == CallSearchCities \/ CallGetCoordinatesLocal

SpecCity == InitCity /\ [][NextCity]_vars

(***************************************************************************)
(* The functions of the chart points, each called on its own with          *)
(* arguments drawn from samples of its domain: longitudes of [0, 360) at   *)
(* and just below the edges of the signs and of the nakshatras, angles of  *)
(* either sign, every pair of a point and a sign.  formatPlanet is called  *)
(* for each body at each longitude under one ascendant, for the Sun at     *)
(* each longitude under each ascendant, and for the ascendant at its own   *)
(* longitude, as calculatePositions calls it.                              *)
(***************************************************************************)
\* 0, 45, 359.999, the multiples of 30, the doubles just below 30, 180 and
\* 360, longitudes around the multiples of 13.3333333 and of 360 / 27,
\* longitudes inside a sign, and the doubles nearest to 10 / 3 and 70 / 3
Longitudes ==
  { DblOfInt(30 * k) : k \in 0..11 }
  \cup { DblOfInt(45), Deg(359999, 3), DblPred(DblOfInt(30)), DblPred(DblOfInt(180)),
         DblPred(FullCircle),
         Deg(133333333, 7), Deg(1333333331, 8), DegOfMillions(13333, 333334, 9),
         Deg(266666666, 7), Deg(266666667, 7),
         DegOfMillions(3599, 999991, 7), DegOfMillions(3599, 999995, 7), Deg(359999999, 6),
         DegOfMillions(3466, 666658, 7), Deg(1005, 1), Deg(20025, 2), Deg(31075, 2),
         DblDiv(DblOfInt(10), DblOfInt(3)), DblDiv(DblOfInt(70), DblOfInt(3)) }

\* 0, 15, the doubles 2^-46 and 2^-44 above 15, 14.999, 100.5 and 359.5
Ascendants ==
  { DblOfInt(0), DblOfInt(15),
    DblAdd(DblOfInt(15), [m |-> NatOf(1), e |-> -46]),
    DblAdd(DblOfInt(15), [m |-> NatOf(1), e |-> -44]),
    Deg(14999, 3), Deg(1005, 1), Deg(3595, 1) }

\* 0, 45, 359.999, 360, 720.5, 1000000.25 and the negatives -720.5, -30,
\* -2^-44, -2^-46 and -10^-15
Angles ==
  { Pos(DblOfInt(0)), Pos(DblOfInt(45)), Pos(Deg(359999, 3)), Pos(FullCircle),
    Pos(Deg(7205, 1)), Pos(Deg(100000025, 2)),
    Sgn(TRUE, Deg(7205, 1)), Sgn(TRUE, DblOfInt(30)),
    Sgn(TRUE, [m |-> NatOf(1), e |-> -44]), Sgn(TRUE, [m |-> NatOf(1), e |-> -46]),
    Sgn(TRUE, Deg(1, 15)) }

\* the names calculatePositions gives to formatPlanet
EnglishNames ==
  {bodyMap[k] : k \in 1..Len(bodyMap)} \cup {"Rahu", "Ketu", "Ascendant"}

\* the ten points of a chart and a name that is none of them
DignityPlanets ==
  {PLANET_NAME_MAP[n] : n \in EnglishNames} \cup {"Pluto"}

\* 0, 0.01, 90, the double just below 180, 180, 180.00001, 270, 359.99 and
\* the double just below 360
SampledLongitudes ==
  { DblOfInt(0), Deg(1, 2), DblOfInt(90), DblPred(DblOfInt(180)), DblOfInt(180),
    Deg(18000001, 5), DblOfInt(270), Deg(35999, 2), DblPred(FullCircle) }

\* sidereal longitudes of Rahu as normalize returns them: 0, longitudes
\* inside a sign, the multiples of 30 and the doubles just below them, and
\* 360 itself
NodeLongitudes ==
  { DblOfInt(0), Deg(123456789, 7), DblPred(DblOfInt(30)), DblOfInt(30), DblOfInt(45),
    Deg(1005, 1), DblPred(DblOfInt(180)), DblOfInt(180), Deg(20025, 2),
    Deg(31075, 2), DblPred(FullCircle), FullCircle }

NodeAscendants == { DblOfInt(0), DblOfInt(15), Deg(1005, 1), Deg(3595, 1) }

InitPlanet ==
  /\ given \in
       [fn : {"formatPlanet"}, englishName : EnglishNames \ {"Ascendant"},
        lon : Longitudes, isRetrograde : BOOLEAN, ascLon : {Deg(1005, 1)}]
       \cup [fn : {"formatPlanet"}, englishName : {"Sun"}, lon : Longitudes,
             isRetrograde : {FALSE}, ascLon : Ascendants]
       \cup { [fn |-> "formatPlanet", englishName |-> "Ascendant", lon |-> a,
               isRetrograde |-> FALSE, ascLon |-> a] : a \in Ascendants \cup Longitudes }
       \cup [fn : {"normalize"}, deg : Angles]
       \cup [fn : {"isRetrograde"}, englishName : {bodyMap[k] : k \in 1..Len(bodyMap)},
             elon : SampledLongitudes, elonPrev : SampledLongitudes]
       \cup [fn : {"calculateDignity"}, planet : DignityPlanets,
             sign : {SIGNS[k] : k \in 1..Len(SIGNS)}]
       \cup [fn : {"nodes"}, siderealRahu : NodeLongitudes, siderealAsc : NodeAscendants]
  /\ returned = [done |-> FALSE]
  /\ InitDashaIdle
  /\ InitAppComponent
  /\ InitStorageIdle
  /\ placeInput = <<>>
  /\ InitCityLookup

CallFormatPlanet ==
  /\ given.fn = "formatPlanet"
  /\ ~returned.done
  /\ returned' = [done |-> TRUE,
                  value |-> formatPlanet(given.englishName, given.lon,
                                         given.isRetrograde, given.ascLon)]
  /\ UNCHANGED <<given, dashaVars, appVars, cityVars, storageVars>>

CallNormalize ==
  /\ given.fn = "normalize"
  /\ ~returned.done
  /\ returned' = [done |-> TRUE, value |-> normalize(given.deg)]
  /\ UNCHANGED <<given, dashaVars, appVars, cityVars, storageVars>>

CallCalculateDignity ==
  /\ given.fn = "calculateDignity"
  /\ ~returned.done
  /\ returned' = [done |-> TRUE, value |-> calculateDignity(given.planet, given.sign)]
  /\ UNCHANGED <<given, dashaVars, appVars, cityVars, storageVars>>

\* the test calculatePositions makes in its loop for one body, on the
\* longitudes sampled at the date and one hour before
CallIsRetrograde ==
  /\ given.fn = "isRetrograde"
  /\ ~returned.done
  /\ returned' = [done |-> TRUE,
                  value |-> isRetrogradeOf(given.englishName, given.elon, given.elonPrev)]
  /\ UNCHANGED <<given, dashaVars, appVars, cityVars, storageVars>>

\* the end of calculatePositions, from siderealRahu on
CallNodes ==
  /\ given.fn = "nodes"
  /\ ~returned.done
  /\ returned' = [done |-> TRUE,
                  value |-> PointsAfterLoop(Pos(given.siderealRahu), given.siderealAsc)]
  /\ UNCHANGED <<given, dashaVars, appVars, cityVars, storageVars>>

NextPlanet ==
  \/ CallFormatPlanet
  \/ CallNormalize
  \/ CallCalculateDignity
  \/ CallIsRetrograde
  \/ CallNodes

SpecPlanet == InitPlanet /\ [][NextPlanet]_vars

(***************************************************************************)
(* Properties of calculateChart and generateChart                          *)
(***************************************************************************)
\* C8: when the date and time given to calculateChart name no instant, the
\* call is rejected before anything else is computed: no place lookup, no
\* ayanamsa and no ephemeris call comes before the rejection
C8_RejectedBeforeAnyComputation ==
  (awaiting.at = "calculateChart" /\ ~ValidDateTime(awaiting.details.dt))
    => /\ awaiting.result.thrown
       /\ \A k \in 1..Len(awaiting.result.trace) :
            awaiting.result.trace[k].step
              \notin {"getCoordinatesLocal", "ayanamsa", "Astronomy.MakeTime",
                      "calculatePositions"}

TenPoints ==
  {"Surya", "Chandra", "Kuja", "Budha", "Guru", "Shukra", "Shani", "Rahu", "Ketu", "Lagna"}

HoldsTenPoints(chart) ==
  /\ Len(chart.planets) = 10
  /\ {chart.planets[k].name : k \in 1..Len(chart.planets)} = TenPoints

\* C9: calculateChart throws or returns a chart of all ten points, no chart
\* kept by the application holds fewer, and a generateChart call whose
\* calculateChart throws leaves chartData and hasData as they were when it
\* was made and ends with isLoading false
C9_NoPartialChart ==
  /\ [](/\ awaiting.at = "calculateChart"
           => awaiting.result.thrown \/ HoldsTenPoints(awaiting.result.chart)
        /\ chartData # Null => HoldsTenPoints(chartData)
        /\ \A k \in 1..Len(timers) : HoldsTenPoints(timers[k]))
  /\ [][/\ awaiting'.at = "calculateChart"
           => chartData' = chartData /\ hasData' = hasData
        /\ (awaiting.at = "calculateChart" /\ awaiting.result.thrown)
           => /\ chartData' = chartData
              /\ hasData' = hasData
              /\ isLoading' = FALSE
              /\ awaiting'.at = "none"]_vars

\* a call rejected for a sample that failed has ended while the chart of an
\* earlier call waits for its delay
C9_Witness ==
  /\ settled.how = "rejected"
  /\ settled.error = "Astronomy"
  /\ awaiting.at = "none"
  /\ ~isLoading
  /\ ~hasData
  /\ chartData = Null
  /\ Len(timers) = 1
  /\ HoldsTenPoints(timers[1])

(***************************************************************************)
(* Properties of the city lookup                                           *)
(***************************************************************************)
\* C10: getCoordinatesLocal returns, for every place, the coordinates of the
\* first city searchCities finds for the text before the first comma, and
\* the default coordinate (28.6139, 77.2090) when it finds none, as it does
\* when that text has fewer than 2 characters
C10_CoordinatesOfFirstMatch ==
  cityCall.fn = "getCoordinatesLocal"
    => LET text == Split(placeInput, ",")[1]
           matches == searchCities(text)
       IN /\ matches # <<>>
             => foundCoords = [lat |-> matches[1].lat, lon |-> matches[1].lng]
          /\ matches = <<>> => foundCoords = [lat |-> 2861390, lon |-> 7720900]
          /\ Len(text) < 2 => foundCoords = [lat |-> 2861390, lon |-> 7720900]

\* "Agra, Uttar Pradesh" resolved to the coordinates of Agra
C10_Witness ==
  /\ cityCall.fn = "getCoordinatesLocal"
  /\ Len(placeInput) > 4
  /\ SubSeq(placeInput, 1, 5) = <<"A", "g", "r", "a", ",">>
  /\ foundCoords = [lat |-> 2718333, lon |-> 7801667]

(***************************************************************************)
(* Properties of the chart points                                          *)
(***************************************************************************)
\* whether v - d is a whole multiple of 360, in exact arithmetic
CongruentMod360(v, d) ==
  LET e == MinOf(v.abs.e, d.abs.e)
      Whole(a, b) ==
        NatMod(IF v.neg = d.neg
               THEN (IF NatLt(a, b) THEN NatSub(b, a) ELSE NatSub(a, b))
               ELSE NatAdd(a, b),
               ShiftLeft(NatOf(360), 0 - e)) = <<>>
  IN Whole(ShiftLeft(v.abs.m, v.abs.e - e), ShiftLeft(d.abs.m, d.abs.e - e))

\* whether 0 <= v < 360
InCircle(v) == (~v.neg \/ SgnIsZero(v)) /\ DblLt(v.abs, FullCircle)

NormalizeCalled == given.fn = "normalize" /\ returned.done

\* C17: normalize(d) returns, for every angle d, negative or 360 and more
\* included, the value v with 0 <= v < 360 that differs from d by a whole
\* multiple of 360
C17_NormalizeInCircle ==
  NormalizeCalled
    => InCircle(returned.value) /\ CongruentMod360(returned.value, given.deg)

DignityCalled == given.fn = "calculateDignity" /\ returned.done

\* Surya, Chandra, Kuja, Budha, Guru, Shukra, Shani, Rahu and Ketu
NineBodies == DOMAIN rules \ {"Lagna"}

\* C13: for each of the nine bodies and each sign, calculateDignity returns
\* Exalted in the body's exaltation sign, else Debilitated in its
\* debilitation sign, else Own Sign in one of its own signs, else Neutral;
\* Surya is Exalted in Mesha, Debilitated in Tula, in its Own Sign in Simha
\* and Neutral in Vrishabha, and Budha is Exalted in Kanya, its exaltation
\* sign and one of its own signs
C13_DignityPriority ==
  (DignityCalled /\ given.planet \in NineBodies)
    => LET rule == rules[given.planet]
           own == {rule.own[k] : k \in 1..Len(rule.own)}
           dignity == returned.value
       IN /\ dignity = "Exalted" <=> given.sign = rule.ex
          /\ dignity = "Debilitated" <=> (given.sign # rule.ex /\ given.sign = rule.deb)
          /\ dignity = "Own Sign"
               <=> (given.sign \notin {rule.ex, rule.deb} /\ given.sign \in own)
          /\ dignity = "Neutral" <=> given.sign \notin ({rule.ex, rule.deb} \cup own)
          /\ given.planet = "Surya"
               => /\ given.sign = "Mesha" => dignity = "Exalted"
                  /\ given.sign = "Tula" => dignity = "Debilitated"
                  /\ given.sign = "Simha" => dignity = "Own Sign"
                  /\ given.sign = "Vrishabha" => dignity = "Neutral"
          /\ (given.planet = "Budha" /\ given.sign = "Kanya") => dignity = "Exalted"

\* calculateDignity has returned Exalted for Budha in Kanya
C13_Witness ==
  /\ DignityCalled
  /\ given.planet = "Budha"
  /\ given.sign = "Kanya"
  /\ returned.value = "Exalted"

\* C14: the dignity of the ascendant point, Lagna, is the placeholder "-" in
\* every sign, as calculateDignity returns it and as formatPlanet stores it
C14_LagnaHasNoDignity ==
  /\ (DignityCalled /\ given.planet = "Lagna") => returned.value = "-"
  /\ (given.fn = "formatPlanet" /\ returned.done /\ returned.value.name = "Lagna")
       => returned.value.dignity = "-"

FormatCalled == given.fn = "formatPlanet" /\ returned.done

\* floor(x * q / p) for whole p, q > 0, in exact arithmetic
ExactFloor(x, p, q) ==
  NatToInt(NatDiv(NatMulInt(ShiftLeft(x.m, IF x.e > 0 THEN x.e ELSE 0), q),
                  ShiftLeft(NatOf(p), IF x.e < 0 THEN 0 - x.e ELSE 0)))

\* C15: for every longitude L of [0, 360) the sign index of the chart point
\* is floor(L / 30), one of 0..11: signId is the index plus one, sign is the
\* entry of SIGNS at the index, and the degree shown is that of L mod 30,
\* which is in [0, 30); 0 is in sign 0, 45 in sign 1 and 359.999 in sign 11
C15_SignOfLongitude ==
  FormatCalled
    => LET InSign(index) ==
             /\ index \in 0..11
             /\ returned.value.signId = index + 1
             /\ returned.value.sign = SIGNS[index + 1]
             /\ returned.value.degree
                  = toDMS(DblSub(given.lon, DblOfInt(30 * index)))
             /\ returned.value.degree[1] = ExactFloor(given.lon, 1, 1) - 30 * index
             /\ returned.value.degree[1] \in 0..29
       IN /\ InSign(ExactFloor(given.lon, 30, 1))
          /\ DblEq(given.lon, DblOfInt(0)) => returned.value.signId = 1
          /\ DblEq(given.lon, DblOfInt(45)) => returned.value.signId = 2
          /\ DblEq(given.lon, Deg(359999, 3)) => returned.value.signId = 12

\* formatPlanet has put 359.999 in Meena, the twelfth sign, at 29 degrees 59
C15_Witness ==
  /\ FormatCalled
  /\ DblEq(given.lon, Deg(359999, 3))
  /\ returned.value.signId = 12
  /\ returned.value.sign = "Meena"
  /\ returned.value.degree = <<29, "° ", 5, 9, "'">>

\* C16: for every longitude L of [0, 360) the nakshatra of the chart point
\* is the entry of NAKSHATRAS at the index floor(L / (360 / 27)), one of
\* 0..26, and its lord the entry of the lord cycle at that index mod 9; 0 is
\* in nakshatra 0, whose lord is Ketu, and 359.999 in nakshatra 26
C16_NakshatraOfLongitude ==
  FormatCalled
    => LET InNakshatra(index) ==
             /\ index \in 0..26
             /\ returned.value.nakshatra = NAKSHATRAS[index + 1]
             /\ returned.value.nakshatraLord = NAKSHATRA_LORDS[(index % 9) + 1]
       IN /\ InNakshatra(ExactFloor(given.lon, 40, 3))
          /\ DblEq(given.lon, DblOfInt(0))
               => /\ returned.value.nakshatra = "Ashwini"
                  /\ returned.value.nakshatraLord = "Ketu"
          /\ DblEq(given.lon, Deg(359999, 3)) => returned.value.nakshatra = "Revati"

\* every table entry formatPlanet can read
TableEntries(table) == {table[k] : k \in DOMAIN table}

\* C20: for every longitude of [0, 360) and every body formatPlanet takes no
\* fallback and reads no missing entry: the sign, the nakshatra, the
\* nakshatra lord, the sign lord and the navamsa sign it returns are entries
\* of SIGNS, NAKSHATRAS, the lord cycle, RASI_LORDS and SIGNS
C20_NoFallback ==
  FormatCalled
    => /\ returned.value.sign \in TableEntries(SIGNS)
       /\ returned.value.nakshatra \in TableEntries(NAKSHATRAS)
       /\ returned.value.nakshatra # "Unknown"
       /\ returned.value.nakshatraLord \in TableEntries(NAKSHATRA_LORDS)
       /\ returned.value.rasiLord \in TableEntries(RASI_LORDS)
       /\ returned.value.rasiLord # "-"
       /\ returned.value.navamsaSign \in TableEntries(SIGNS)

\* a double of [0, 2^31) that is a multiple of 2^-60, in units of 2^-60
Fixed(x) == ShiftLeft(x.m, x.e + 60)

\* (L - (A - 15)) mod 360 in exact arithmetic, in units of 2^-60
ExactAdjLon(lon, ascLon) ==
  NatMod(NatSub(NatAdd(Fixed(lon), Fixed(DblOfInt(375))), Fixed(ascLon)),
         Fixed(FullCircle))

\* floor(((L - (A - 15)) mod 360) / 30) + 1 in exact arithmetic
ExactHouse(lon, ascLon) ==
  NatToInt(NatDiv(ExactAdjLon(lon, ascLon), Fixed(DblOfInt(30)))) + 1

\* whether (L - (A - 15)) mod 360 is at least 2^-43 away from every
\* multiple of 30
AwayFromCusps(lon, ascLon) ==
  LET Inside(r) ==
        /\ NatLe(ShiftLeft(NatOf(1), 17), r)
        /\ NatLe(r, NatSub(Fixed(DblOfInt(30)), ShiftLeft(NatOf(1), 17)))
  IN Inside(NatMod(ExactAdjLon(lon, ascLon), Fixed(DblOfInt(30))))

\* the longitude 30 * k degrees forward of lon, mod 360
MovedForward(lon, k) == normalize(Pos(DblAdd(lon, DblOfInt(30 * k)))).abs

\* the house k places after house h, cyclically
HouseAfter(h, k) == ((h - 1 + k) % 12) + 1

\* whether each longitude that is lon + 30 * k mod 360 with no rounding,
\* k in 1..11, is in the k-th house after house h
BandsFollow(lon, ascLon, h) ==
  \A k \in 1..11 :
    LET Moved(to) ==
          Fixed(to) = NatMod(NatAdd(Fixed(lon), Fixed(DblOfInt(30 * k))),
                             Fixed(FullCircle))
            => houseOf(to, ascLon) = HouseAfter(h, k)
    IN Moved(MovedForward(lon, k))

\* C12, as stated: for every L and A of [0, 360) the house is
\* floor(normalize(L - (A - 15)) / 30) + 1, one of 1..12, and L moved
\* forward by 30 degrees, mod 360, is in the next house cyclically, so that
\* the twelve bands of 30 degrees from A - 15 have the twelve houses
C12_HouseOfEveryLongitude ==
  FormatCalled
    => /\ returned.value.house \in 1..12
       /\ returned.value.house = ExactHouse(given.lon, given.ascLon)
       /\ BandsFollow(given.lon, given.ascLon, returned.value.house)

\* C12, amended: the house is one of 1..12 for every L and A of [0, 360);
\* when (L - (A - 15)) mod 360 is at least 2^-43 away from every multiple of
\* 30, the house is floor(((L - (A - 15)) mod 360) / 30) + 1 and L moved
\* forward by k times 30 degrees, mod 360, is in the k-th house after it
C12_HouseAwayFromCusps ==
  FormatCalled
    => /\ returned.value.house \in 1..12
       /\ LET Away(adj) ==
                LET Inside(r) ==
                      /\ NatLe(ShiftLeft(NatOf(1), 17), r)
                      /\ NatLe(r, NatSub(Fixed(DblOfInt(30)), ShiftLeft(NatOf(1), 17)))
                IN Inside(NatMod(adj, Fixed(DblOfInt(30))))
                     => /\ returned.value.house
                             = NatToInt(NatDiv(adj, Fixed(DblOfInt(30)))) + 1
                        /\ BandsFollow(given.lon, given.ascLon, returned.value.house)
          IN Away(ExactAdjLon(given.lon, given.ascLon))

\* formatPlanet has put longitude 0 in house 10 of the ascendant 100.5, the
\* difference being negative before 360 is added
C12_Witness ==
  /\ FormatCalled
  /\ DblEq(given.lon, DblOfInt(0))
  /\ DblEq(given.ascLon, Deg(1005, 1))
  /\ AwayFromCusps(given.lon, given.ascLon)
  /\ returned.value.house = 10
  /\ houseOf(DblOfInt(30), given.ascLon) = 11
  /\ houseOf(DblOfInt(90), given.ascLon) = 1

(***************************************************************************)
(* Properties of the charts                                                *)
(***************************************************************************)
\* the charts calculateChart has returned: the one a generateChart call
\* waits with, those in their delay, the one shown
ChartsProduced ==
  (IF awaiting.at = "calculateChart" /\ ~awaiting.result.thrown
   THEN {awaiting.result.chart} ELSE {})
  \cup {timers[k] : k \in 1..Len(timers)}
  \cup (IF chartData # Null THEN {chartData} ELSE {})

\* C19: in every chart produced Surya and Chandra are not retrograde,
\* whatever the longitudes sampled for them, Rahu and Ketu are retrograde
\* and Lagna is not
C19_RetrogradeByDefinition ==
  \A chart \in ChartsProduced :
    \A k \in 1..Len(chart.planets) :
      LET point == chart.planets[k]
      IN /\ point.name \in {"Surya", "Chandra", "Lagna"} => ~point.isRetrograde
         /\ point.name \in {"Rahu", "Ketu"} => point.isRetrograde

\* the name of the point that is retrograde or not in the chart shown
ShownAs(name, isRetrograde) ==
  \E k \in 1..Len(chartData.planets) :
    /\ chartData.planets[k].name = name
    /\ chartData.planets[k].isRetrograde = isRetrograde

\* the chart shown is that of the sky in which the Sun, the Moon and Mars
\* were sampled further forward an hour before: Kuja is retrograde, Surya
\* and Chandra are not
C19_Witness ==
  /\ hasData
  /\ chartData # Null
  /\ ShownAs("Kuja", TRUE)
  /\ ShownAs("Surya", FALSE)
  /\ ShownAs("Chandra", FALSE)
  /\ ShownAs("Rahu", TRUE)
  /\ ShownAs("Ketu", TRUE)
  /\ ShownAs("Lagna", FALSE)

RetrogradeTested == given.fn = "isRetrograde" /\ returned.done

\* whether current - previous, brought into (-180, 180] by a whole turn, is
\* negative, in exact arithmetic: the difference is in (-180, 0) or above 180
NegativeOnceWrapped(current, previous) ==
  IF NatLt(Fixed(current), Fixed(previous))
  THEN NatLt(NatSub(Fixed(previous), Fixed(current)), Fixed(DblOfInt(180)))
  ELSE NatLt(Fixed(DblOfInt(180)), NatSub(Fixed(current), Fixed(previous)))

\* C21: a body other than the Sun and the Moon is flagged retrograde exactly
\* when its longitude minus its longitude one hour earlier, wrapped into
\* (-180, 180], is negative, for every pair of longitudes of [0, 360), a
\* difference of exactly -180 included
C21_RetrogradeIffNegative ==
  (RetrogradeTested /\ given.englishName \notin {"Sun", "Moon"})
    => returned.value = NegativeOnceWrapped(given.elon, given.elonPrev)

\* whether the longitude 40 degrees forward of lon, mod 360, when it is
\* lon + 40 mod 360 with no rounding, has the navamsa sign given
SameNavamsaFortyOn(lon, navamsaSign) ==
  LET Moved(to) ==
        Fixed(to) = NatMod(NatAdd(Fixed(lon), Fixed(DblOfInt(40))), Fixed(FullCircle))
          => ElementAt(SIGNS, calculateNavamsaIndex(to)) = navamsaSign
  IN Moved(normalize(Pos(DblAdd(lon, DblOfInt(40)))).abs)

\* C22, as stated: for every longitude L of [0, 360) the navamsa sign is the
\* entry of SIGNS at floor(L * 60 / 200) mod 12, one of 0..11, so that it
\* is the same for L and for L + 40 mod 360
C22_NavamsaOfEveryLongitude ==
  FormatCalled
    => /\ returned.value.navamsaSign = SIGNS[(ExactFloor(given.lon, 10, 3) % 12) + 1]
       /\ SameNavamsaFortyOn(given.lon, returned.value.navamsaSign)

\* C22, amended: the navamsa sign is an entry of SIGNS for every longitude L
\* of [0, 360); when L is at least 2^-43 away from every multiple of 10 / 3,
\* it is the entry at floor(L * 60 / 200) mod 12 and is the same for L + 40
\* mod 360
C22_NavamsaAwayFromEdges ==
  FormatCalled
    => /\ returned.value.navamsaSign \in TableEntries(SIGNS)
       /\ LET Away(r) ==
                (/\ NatLe(NatMulInt(ShiftLeft(NatOf(1), 17), 3), r)
                 /\ NatLe(r, NatSub(Fixed(DblOfInt(10)),
                                    NatMulInt(ShiftLeft(NatOf(1), 17), 3))))
                  => /\ returned.value.navamsaSign
                          = SIGNS[(ExactFloor(given.lon, 10, 3) % 12) + 1]
                     /\ SameNavamsaFortyOn(given.lon, returned.value.navamsaSign)
          IN Away(NatMod(NatMulInt(Fixed(given.lon), 3), Fixed(DblOfInt(10))))

\* formatPlanet has put longitude 45, in the fourteenth navamsa, in the
\* navamsa sign Vrishabha, which is that of longitude 85 as well
C22_Witness ==
  /\ FormatCalled
  /\ DblEq(given.lon, DblOfInt(45))
  /\ returned.value.navamsaSign = "Vrishabha"
  /\ calculateNavamsaIndex(DblOfInt(85)) = 1

NodesPlaced == given.fn = "nodes" /\ returned.done

\* whether x is at least 2^-42 away from every multiple of 30, x in units
\* of 2^-60
AwayFromThirties(x) ==
  LET Inside(r) ==
        /\ NatLe(ShiftLeft(NatOf(1), 18), r)
        /\ NatLe(r, NatSub(Fixed(DblOfInt(30)), ShiftLeft(NatOf(1), 18)))
  IN Inside(NatMod(x, Fixed(DblOfInt(30))))

\* whether Ketu is 6 signs and 6 houses after Rahu, cyclically
SixPlacesAfter(rahu, ketu) ==
  /\ ketu.signId = HouseAfter(rahu.signId, 6)
  /\ ketu.house = HouseAfter(rahu.house, 6)

\* Rahu's longitude + 180 mod 360 in exact arithmetic, in units of 2^-60
ExactOpposite(lon) == NatMod(NatAdd(Fixed(lon), Fixed(DblOfInt(180))), Fixed(FullCircle))

\* C23, as stated: in every chart Ketu's longitude is Rahu's + 180 mod 360,
\* Ketu's sign is 6 places after Rahu's and Ketu's house is 6 places after
\* Rahu's, cyclically over 12
C23_KetuOppositeRahu ==
  NodesPlaced
    => /\ returned.value[1].name = "Rahu"
       /\ returned.value[2].name = "Ketu"
       /\ Fixed(returned.value[2].longitude) = ExactOpposite(returned.value[1].longitude)
       /\ SixPlacesAfter(returned.value[1], returned.value[2])

\* C23, amended: Ketu's longitude is Rahu's + 180 mod 360 to within 2^-44;
\* when Rahu's longitude and its distance from the start of the first
\* house are at least 2^-42 away from every multiple of 30, Ketu's sign and
\* Ketu's house are 6 places after Rahu's
C23_KetuOppositeAwayFromEdges ==
  NodesPlaced
    => /\ returned.value[1].name = "Rahu"
       /\ returned.value[2].name = "Ketu"
       /\ LET Near(a, b) ==
                \/ NatLe(a, b) /\ NatLe(NatSub(b, a), ShiftLeft(NatOf(1), 16))
                \/ NatLe(b, a) /\ NatLe(NatSub(a, b), ShiftLeft(NatOf(1), 16))
          IN Near(Fixed(returned.value[2].longitude),
                  NatAdd(Fixed(returned.value[1].longitude), Fixed(DblOfInt(180))))
               \/ Near(NatAdd(Fixed(returned.value[2].longitude), Fixed(DblOfInt(180))),
                       Fixed(returned.value[1].longitude))
       /\ (/\ AwayFromThirties(Fixed(given.siderealRahu))
           /\ AwayFromThirties(ExactAdjLon(given.siderealRahu, given.siderealAsc)))
            => SixPlacesAfter(returned.value[1], returned.value[2])

\* Rahu at 200.25 in Tula and Ketu at 20.25 in Mesha, in houses 4 and 10 of
\* the ascendant 100.5
C23_Witness ==
  /\ NodesPlaced
  /\ DblEq(returned.value[1].longitude, Deg(20025, 2))
  /\ DblEq(returned.value[2].longitude, Deg(2025, 2))
  /\ returned.value[1].sign = "Tula"
  /\ returned.value[2].sign = "Mesha"
  /\ returned.value[1].house = 4
  /\ returned.value[2].house = 10

(***************************************************************************)
(* Properties of the durations                                             *)
(***************************************************************************)
\* whether the duration the row carries, which getDurationYMD made of its
\* startDate and its endDate, has no negative part and fewer than 12 months
DurationInRange(row) ==
  /\ row.durationYear >= 0
  /\ row.durationMonth \in 0..11
  /\ row.durationDay >= 0

\* C28: for start <= end getDurationYMD returns y >= 0, 0 <= m <= 11 and
\* d >= 0, so that no row of the mahadashas, the antardashas or the
\* pratyantardashas carries a negative durationDay or durationMonth
C28_DurationsNotNegative ==
  /\ \A k \in 1..Len(dashas) :
       NatLe(dashas[k].startDate, dashas[k].endDate) => DurationInRange(dashas[k])
  /\ \A k \in 1..Len(subDashas) :
       NatLe(subDashas[k].startDate, subDashas[k].endDate)
         => DurationInRange(subDashas[k])

(***************************************************************************)
(* Properties of the table against the chart                               *)
(***************************************************************************)
\* C27: for every moon longitude L of [0, 360) the lord of the first period
\* of calculateMahadashas(L, birth) is the nakshatraLord formatPlanet gives
\* a point at the longitude L
C27_FirstLordIsNakshatraLord ==
  call.fn # "none"
    => dashas[1].planet
         = Str(formatPlanet("Moon", moonLon, FALSE, DblOfInt(0)).nakshatraLord)

(***************************************************************************)
(* DashaTableComponent: the effect of its constructor, which runs when the *)
(* component is first shown and whenever an input has changed, drillDown   *)
(* on a row shown and levelUp.  The date and the time given are never      *)
(* empty                                                                   *)
(***************************************************************************)
TableMoonLons == { ZeroLon, ExampleLon }

\* the rows clicked
ClickedRows == { 1, 5, 9 }

\* the three signals of the component
Table == [level |-> level, history |-> history, currentRows |-> currentRows]

\* the effect, run for the inputs lon and dt: a lon of 0 is falsy
effectOf(table, lon, dt) ==
  IF ~DblEq(lon, DblOfInt(0))
  THEN [level |-> 1, history |-> <<>>, currentRows |-> calculateMahadashas(lon, dt)]
  ELSE table

nextRowsOf(nextLevel, item) ==
  IF nextLevel = 2 THEN calculateAntarDashas(item.planet, item.startDate)
  ELSE IF nextLevel = 3
  THEN calculatePratyantarDashas(Split(item.planet, " - ")[1],
                                 Split(item.planet, " - ")[2], item.startDate)
  ELSE <<>>

\* drillDown after its first line
drilledInto(table, item) ==
  [level |-> table.level + 1,
   history |-> Append(table.history, item),
   currentRows |-> nextRowsOf(table.level + 1, item)]

\* drillDown without its first line
drillDownAtAnyLevel(table, item) == drilledInto(table, item)

drillDownOf(table, item) ==
  IF table.level >= 3 THEN table ELSE drilledInto(table, item)

\* the rows levelUp sets for the level it went up to; prevItem is
\* currentHistory[currentHistory.length - 2]
rowsAfterLevelUp(table, lon, dt) ==
  IF table.level - 1 = 1 THEN calculateMahadashas(lon, dt)
  ELSE IF table.level - 1 = 2 /\ Len(table.history) >= 2
  THEN calculateAntarDashas(table.history[Len(table.history) - 1].planet,
                            table.history[Len(table.history) - 1].startDate)
  ELSE table.currentRows

levelUpOf(table, lon, dt) ==
  IF table.level <= 1 THEN table
  ELSE [level |-> table.level - 1,
        history |-> SubSeq(table.history, 1, Len(table.history) - 1),
        currentRows |-> rowsAfterLevelUp(table, lon, dt)]

InitTable ==
  /\ tz \in TimeZones
  /\ moonLon \in TableMoonLons
  /\ birthDate \in {ParseLocal(dt, tz) : dt \in BirthDateTimes}
  /\ dashas = <<>>
  /\ call = [fn |-> "none"]
  /\ subDashas = <<>>
  /\ history = <<>>
  /\ passedDate = <<>>
  /\ level = 1
  /\ currentRows = <<>>
  /\ InitAppComponent
  /\ InitStorageIdle
  /\ placeInput = <<>>
  /\ InitCityLookup
  /\ InitPlanetIdle

Shows(table) ==
  /\ level' = table.level
  /\ history' = table.history
  /\ currentRows' = table.currentRows

\* the first run of the effect
RunEffect ==
  /\ call.fn = "none"
  /\ call' = [fn |-> "effect"]
  /\ Shows(effectOf(Table, moonLon, birthDate))
  /\ UNCHANGED <<tz, moonLon, birthDate, dashas, subDashas, passedDate, appVars,
                 cityVars, planetVars, storageVars>>

\* the host gives other inputs and the effect runs again
SetInputs(lon, dt) ==
  /\ call.fn # "none"
  /\ <<lon, dt>> # <<moonLon, birthDate>>
  /\ moonLon' = lon
  /\ birthDate' = dt
  /\ call' = [fn |-> "effect"]
  /\ Shows(effectOf(Table, lon, dt))
  /\ UNCHANGED <<tz, dashas, subDashas, passedDate, appVars, cityVars, planetVars,
                 storageVars>>

drillDown(i) ==
  /\ call.fn # "none"
  /\ i \in 1..Len(currentRows)
  /\ call' = [fn |-> "drillDown", from |-> level]
  /\ Shows(drillDownOf(Table, currentRows[i]))
  /\ UNCHANGED <<tz, moonLon, birthDate, dashas, subDashas, passedDate, appVars,
                 cityVars, planetVars, storageVars>>

levelUp ==
  /\ call.fn # "none"
  /\ call' = [fn |-> "levelUp", from |-> level]
  /\ Shows(levelUpOf(Table, moonLon, birthDate))
  /\ UNCHANGED <<tz, moonLon, birthDate, dashas, subDashas, passedDate, appVars,
                 cityVars, planetVars, storageVars>>

NextTable ==
  \/ RunEffect
  \/ \E lon \in TableMoonLons, dt \in BirthDateTimes : SetInputs(lon, ParseLocal(dt, tz))
  \/ \E i \in ClickedRows : drillDown(i)
  \/ levelUp

SpecTable == InitTable /\ [][NextTable]_vars

(***************************************************************************)
(* Properties of the dasha table                                           *)
(***************************************************************************)
\* C24: after any sequence of drillDown, levelUp and changes of the inputs
\* the level is 1, 2 or 3 and the history holds level - 1 items; drillDown
\* at level 3 and levelUp at level 1 change nothing
C24_LevelAndHistory ==
  /\ level \in 1..3
  /\ Len(history) = level - 1
  /\ level = 3 => \A i \in 1..Len(currentRows) : drillDownOf(Table, currentRows[i]) = Table
  /\ level = 1 => levelUpOf(Table, moonLon, birthDate) = Table
  /\ (call.fn = "drillDown" /\ call.from = 3) => level = 3
  /\ (call.fn = "levelUp" /\ call.from = 1) => level = 1

\* drillDown has been called at level 3, on a row of the pratyantardashas
\* shown, and the table is at level 3 with a history of two rows
C24_Witness ==
  /\ call.fn = "drillDown"
  /\ call.from = 3
  /\ level = 3
  /\ Len(history) = 2
  /\ Len(currentRows) = 9
  /\ currentRows[1].level = 3

\* whether the rows shown are those of the generator for the position of
\* the table
RowsOfPosition ==
  /\ level = 1 => currentRows = calculateMahadashas(moonLon, birthDate)
  /\ level = 2 =>
       currentRows = calculateAntarDashas(history[1].planet, history[1].startDate)
  /\ level = 3 =>
       /\ Len(Split(history[2].planet, " - ")) = 2
       /\ \A k \in 1..2 : Split(history[2].planet, " - ")[k] \in {Str(l) : l \in Lords}
       /\ currentRows
            = calculatePratyantarDashas(Split(history[2].planet, " - ")[1],
                                        Split(history[2].planet, " - ")[2],
                                        history[2].startDate)

\* C25: once the effect has run, after any sequence of drillDown and
\* levelUp, the rows shown are the mahadashas of the current inputs at level
\* 1, the antardashas of the mahadasha row drilled into at level 2 and the
\* pratyantardashas of the antardasha row drilled into at level 3, whose
\* label splits into two lords; and drillDown on a row then levelUp shows
\* the rows shown before
C25_RowsOfThePosition ==
  call.fn # "none"
    => /\ RowsOfPosition
       /\ level < 3 =>
            \A i \in ClickedRows \cap (1..Len(currentRows)) :
              levelUpOf(drillDownOf(Table, currentRows[i]), moonLon, birthDate).currentRows
                = currentRows

\* C26: each time the inputs change to a moon longitude of [0, 360), 0
\* included, and a date and a time that are not empty, the table is set to
\* level 1 with an empty history and the 9 mahadashas of the new inputs
C26_InputsResetTheTable ==
  [][(call'.fn = "effect" /\ <<moonLon', birthDate'>> # <<moonLon, birthDate>>)
       => /\ level' = 1
          /\ history' = <<>>
          /\ Len(currentRows') = 9
          /\ currentRows' = calculateMahadashas(moonLon', birthDate')]_vars

(***************************************************************************)
(* Properties of the loading flag                                          *)
(***************************************************************************)
\* the generateChart calls that have started and not reached their finally
\* block: the one waiting for calculateChart and those in their delay
InFlight == (IF awaiting.at = "none" THEN 0 ELSE 1) + Len(timers)

\* C29: isLoading is true in every state in which at least one
\* generateChart call is in flight, whatever the interleaving of the calls
C29_LoadingWhileInFlight == InFlight >= 1 => isLoading

(***************************************************************************)
(* StorageService.  Each call of db.getAll, db.put and db.delete is a      *)
(* transaction of its own on the object store 'profiles'.  The database    *)
(* starts a transaction that writes only when every transaction created    *)
(* before it has finished, and a transaction that reads only when every    *)
(* writing transaction created before it has finished, so reading          *)
(* transactions next to each other may run together and finish in any      *)
(* order.  The call that awaits a transaction goes on when it finishes.    *)
(***************************************************************************)
MaxProfiles == 2
MaxDeletes == 1
MaxClock == 2

\* the ids crypto.randomUUID gives: none twice
Ids == 1..MaxProfiles

\* a profile left in the database by an earlier visit
EarlierProfile == [id |-> 0, timestamp |-> 0]

Transaction(op, key, timestamp) ==
  [op |-> op, key |-> key, timestamp |-> timestamp, read |-> FALSE, all |-> <<>>]

\* db.getAll('profiles'): the values in the order of their keys
RECURSIVE getAll(_)
getAll(values) ==
  IF values = {} THEN <<>>
  ELSE LET first == CHOOSE p \in values : \A q \in values : p.id <= q.id
       IN <<first>> \o getAll(values \ {first})

\* db.put('profiles', newProfile): the key path is id
put(values, newProfile) == {p \in values : p.id # newProfile.id} \cup {newProfile}

\* db.delete('profiles', id)
delete(values, id) == {p \in values : p.id # id}

\* the array as getAll returned it
keptInKeyOrder(all) == all

\* all.sort((a, b) => b.timestamp - a.timestamp), a stable sort
RECURSIVE sortedByTimestamp(_)
sortedByTimestamp(all) ==
  IF all = <<>> THEN <<>>
  ELSE LET Newer(p) == p.timestamp > Head(all).timestamp
           NotNewer(p) == p.timestamp <= Head(all).timestamp
           WithHead(rest) ==
             SelectSeq(rest, Newer) \o <<Head(all)>> \o SelectSeq(rest, NotNewer)
       IN WithHead(sortedByTimestamp(Tail(all)))

\* the transaction a call creates once dbPromise has resolved
TransactionOf(c, now) ==
  IF c.fn = "refreshProfiles" THEN Transaction("getAll", 0, 0)
  ELSE IF c.fn = "saveProfile" THEN Transaction("put", c.id, now)
  ELSE Transaction("delete", c.id, 0)

\* a call up to its await of dbPromise and, when the database is open, up to
\* its next await
Called(c) ==
  IF dbOpen
  THEN /\ transactions' = Append(transactions, TransactionOf(c, clock))
       /\ UNCHANGED opening
  ELSE /\ opening' = Append(opening, c)
       /\ UNCHANGED transactions

\* the constructor has run: openDB is under way and the initial load waits
\* for it
InitStorage ==
  /\ stored \in SUBSET {EarlierProfile}
  /\ profiles = <<>>
  /\ dbOpen = FALSE
  /\ opening = <<[fn |-> "refreshProfiles", id |-> 0]>>
  /\ transactions = <<>>
  /\ clock = 1
  /\ issued = {}
  /\ deletes = 0
  /\ InitAppComponent
  /\ InitDashaIdle
  /\ placeInput = <<>>
  /\ InitCityLookup
  /\ InitPlanetIdle

saveProfile(id) ==
  /\ id \in Ids \ issued
  /\ issued' = issued \cup {id}
  /\ Called([fn |-> "saveProfile", id |-> id])
  /\ UNCHANGED <<stored, profiles, dbOpen, clock, deletes, dashaVars, appVars, cityVars,
                 planetVars>>

deleteProfile(id) ==
  /\ deletes < MaxDeletes
  /\ deletes' = deletes + 1
  /\ Called([fn |-> "deleteProfile", id |-> id])
  /\ UNCHANGED <<stored, profiles, dbOpen, clock, issued, dashaVars, appVars, cityVars,
                 planetVars>>

\* dbPromise resolves: the calls waiting for it go on in the order they were
\* made
DatabaseOpened ==
  /\ ~dbOpen
  /\ dbOpen' = TRUE
  /\ transactions' = [k \in 1..Len(opening) |-> TransactionOf(opening[k], clock)]
  /\ opening' = <<>>
  /\ UNCHANGED <<stored, profiles, clock, issued, deletes, dashaVars, appVars, cityVars,
                 planetVars>>

\* the oldest transaction is a put or a delete and finishes: saveProfile or
\* deleteProfile goes on into refreshProfiles, up to db.getAll
WriteFinished ==
  /\ transactions # <<>>
  /\ Head(transactions).op # "getAll"
  /\ stored' = IF Head(transactions).op = "put"
               THEN put(stored, [id |-> Head(transactions).key,
                                 timestamp |-> Head(transactions).timestamp])
               ELSE delete(stored, Head(transactions).key)
  /\ transactions' = Append(Tail(transactions), Transaction("getAll", 0, 0))
  /\ UNCHANGED <<profiles, dbOpen, opening, clock, issued, deletes, dashaVars, appVars,
                 cityVars, planetVars>>

\* a getAll with no writing transaction before it reads the store
ReadStarted(k) ==
  /\ k \in 1..Len(transactions)
  /\ \A j \in 1..k : transactions[j].op = "getAll"
  /\ ~transactions[k].read
  /\ transactions' = [transactions EXCEPT ![k].read = TRUE, ![k].all = getAll(stored)]
  /\ UNCHANGED <<stored, profiles, dbOpen, opening, clock, issued, deletes, dashaVars,
                 appVars, cityVars, planetVars>>

\* a getAll finishes: refreshProfiles goes on to its end
ReadFinished(k) ==
  /\ k \in 1..Len(transactions)
  /\ transactions[k].op = "getAll"
  /\ transactions[k].read
  /\ profiles' = sortedByTimestamp(transactions[k].all)
  /\ transactions' = SubSeq(transactions, 1, k - 1)
                       \o SubSeq(transactions, k + 1, Len(transactions))
  /\ UNCHANGED <<stored, dbOpen, opening, clock, issued, deletes, dashaVars, appVars,
                 cityVars, planetVars>>

\* a millisecond passes
Tick ==
  /\ clock < MaxClock
  /\ clock' = clock + 1
  /\ UNCHANGED <<stored, profiles, dbOpen, opening, transactions, issued, deletes,
                 dashaVars, appVars, cityVars, planetVars>>

NextStorage ==
  \/ \E id \in Ids : saveProfile(id)
  \/ \E id \in {0} \cup Ids : deleteProfile(id)
  \/ DatabaseOpened
  \/ WriteFinished
  \/ \E k \in 1..(1 + MaxProfiles + MaxDeletes) : ReadStarted(k)
  \/ \E k \in 1..(1 + MaxProfiles + MaxDeletes) : ReadFinished(k)
  \/ Tick

SpecStorage == InitStorage /\ [][NextStorage]_vars

(***************************************************************************)
(* Properties of the saved profiles                                        *)
(***************************************************************************)
AllCompleted == dbOpen /\ opening = <<>> /\ transactions = <<>>

\* C30: for every interleaving of saveProfile calls, deleteProfile calls and
\* the initial load, once all calls have completed the signal profiles
\* holds the profiles stored in the database and no other, and in every
\* state the signal is in descending order of timestamp
C30_ProfilesFollowTheStore ==
  /\ AllCompleted
       => /\ {profiles[k] : k \in 1..Len(profiles)} = stored
          /\ Len(profiles) = Cardinality(stored)
  /\ \A i, j \in 1..Len(profiles) :
       i < j => profiles[i].timestamp >= profiles[j].timestamp

\* two saveProfile calls and a deleteProfile call have completed: two
\* profiles are stored, and the signal shows first the newer one, which has
\* the larger key
C30_Witness ==
  /\ AllCompleted
  /\ Cardinality(issued) = 2
  /\ deletes = 1
  /\ Len(profiles) = 2
  /\ profiles[1].timestamp > profiles[2].timestamp
  /\ profiles[1].id > profiles[2].id

====
